---------------------------- MODULE Spec2Model ----------------------------
(***************************************************************************)
(* A model of the sim8086 instruction decoder (package decoder): the byte  *)
(* cursor, the bit-pattern matcher, the ordered dispatch table of          *)
(* Decoder.Decode, the operand resolvers and field decoders, the builders, *)
(* the label map and the memoized renderer GetDecoded.                     *)
(*                                                                         *)
(* Text is modelled exactly: every string is the Go string.  The decoded   *)
(* output ([]byte in Go) is kept as the sequence of its "\n"-terminated    *)
(* lines, so its concatenation is the Go byte string; every builder        *)
(* returns exactly one such line.                                          *)
(***************************************************************************)
EXTENDS Integers, Sequences, FiniteSets, TLC

VARIABLES
  bytes,     \* Decoder.bytes: the input buffer (never written after NewDecoder)
  pos,       \* Decoder.pos: the read position
  segment,   \* Decoder.segment: the active segment override ("" when none)
  nodes,     \* Decoder.nodes: the appended instructionNode values
  labels,    \* Decoder.labels: map position -> label name
  cacheKey,  \* Decoder.cacheKey
  decoded,   \* Decoder.decoded: the cached render, as lines
  pc,        \* where the caller is: "idle", "loop" (inside Decode's for), "done",
             \* "error" (Decode returned nil, err), "panic" (Decode panicked)
  err,       \* the error Decode returned, or the panic value ("" when none)
  ret,       \* contents returned by the last completed Decode call
  calls,     \* number of Decode calls made on this Decoder
  got,       \* what the last GetDecoded call by the harness returned
  last,      \* observation of the last loop iteration (no program state)
  probe,     \* the last call of a cursor operation made on its own: the
             \* operation, its arguments and what it returned
  twin,      \* the fields of a second Decoder built over the same buffer
  cli        \* the command-line program around the Decoder: where main is,
             \* what it found on its command line, what it wrote to standard
             \* output and standard error, and its exit status

vars == <<bytes, pos, segment, nodes, labels, cacheKey, decoded, pc, err, ret,
          calls, got, last, cli, twin, probe>>

---------------------------------------------------------------------------
\* Bounds of the model.

\* Longest input buffer of the general specification.
MaxLen == 3

\* Decode calls made on one Decoder.
MaxCalls == 2

\* Longest input buffer of the branch specification.
MaxJumpLen == 4

\* Largest offset handed to peekForward when it is called on its own.
MaxOffset == 3

\* Most templates in a pattern handed to matchPattern when it is called on
\* its own.
MaxTemplates == 3

---------------------------------------------------------------------------
\* Integer helpers for Go's fixed-width arithmetic.

Byte == 0..255

\* (b >> k) & 1
Bit(b, k) == (b \div (2 ^ k)) % 2

\* b >> k
Shr(b, k) == b \div (2 ^ k)

\* int8(uint8(v))
ToInt8(v) == LET u == v % 256 IN IF u >= 128 THEN u - 256 ELSE u

\* int16(v) of a uint16
ToInt16(v) == LET u == v % 65536 IN IF u >= 32768 THEN u - 65536 ELSE u

\* binary.LittleEndian.Uint16([]byte{low, high})
LittleEndianUint16(low, high) == low + 256 * high

\* fmt's %.3b of a 3-bit value
Bin3(v) == ToString(Bit(v, 2)) \o ToString(Bit(v, 1)) \o ToString(Bit(v, 0))

---------------------------------------------------------------------------
\* Field encodings.

RegIsSource == 0
RegIsDestination == 1
ByteOperation == 0
WordOperation == 1
NoSignExtension == 0
SignExtension == 1
CountByOne == 0
CountByCL == 1
LoopWhileNotZero == 0
LoopWhileZero == 1
MemoryModeNoDisplacementFieldEncoding == 0
MemoryMode8DisplacementFieldEncoding == 1
MemoryMode16DisplacementFieldEncoding == 2
RegisterModeFieldEncoding == 3

\* R/M value of the direct-address exception (rm == 0b110 under MOD = 00).
DirectAddressRM == 6

ByteOperationRegisterFieldEncoding ==
  <<"al", "cl", "dl", "bl", "ah", "ch", "dh", "bh">>

WordOperationRegisterFieldEncoding ==
  <<"ax", "cx", "dx", "bx", "sp", "bp", "si", "di">>

SegmentRegisterFieldEncoding == <<"es", "cs", "ss", "ds">>

EffectiveAddressEquation ==
  <<"bx + si", "bx + di", "bp + si", "bp + di", "si", "di", "bp", "bx">>

\* Go map lookups by a byte key (the tables above are 1-indexed tuples).
ByteReg(r) == ByteOperationRegisterFieldEncoding[r + 1]
WordReg(r) == WordOperationRegisterFieldEncoding[r + 1]
\* A key outside the map yields Go's zero value, the empty string.
SegReg(r) == IF r \in 0..3 THEN SegmentRegisterFieldEncoding[r + 1] ELSE ""
Equation(rm) == EffectiveAddressEquation[rm + 1]

RegName(r, isWord) == IF isWord THEN WordReg(r) ELSE ByteReg(r)

JumpNames(op) ==
  CASE op = 116 -> "JZ"   [] op = 124 -> "JL"   [] op = 126 -> "JLE"
    [] op = 114 -> "JB"   [] op = 118 -> "JBE"  [] op = 122 -> "JP"
    [] op = 112 -> "JO"   [] op = 120 -> "JS"   [] op = 117 -> "JNZ"
    [] op = 125 -> "JGE"  [] op = 127 -> "JG"   [] op = 115 -> "JAE"
    [] op = 119 -> "JA"   [] op = 123 -> "JNP"  [] op = 113 -> "JNO"
    [] op = 121 -> "JNS"  [] op = 227 -> "JCXZ" [] op = 226 -> "LOOP"
    [] op = 225 -> "LOOPZ" [] op = 224 -> "LOOPNZ"
    [] OTHER -> ""

\* "" stands for "no entry" (the ok result of the map lookup is false).
JumpAlternativeNames(op) ==
  CASE op = 116 -> "JE"   [] op = 124 -> "JNGE" [] op = 126 -> "JNG"
    [] op = 114 -> "JNAE" [] op = 118 -> "JNA"  [] op = 122 -> "JPE"
    [] op = 117 -> "JNE"  [] op = 125 -> "JNL"  [] op = 127 -> "JNLE"
    [] op = 115 -> "JNB"  [] op = 119 -> "JNBE" [] op = 123 -> "JPO"
    [] op = 225 -> "LOOPE" [] op = 224 -> "LOOPNE"
    [] OTHER -> ""

---------------------------------------------------------------------------
\* Byte cursor.  Each operation takes the position p it is called at.

\* Mutation of next that hands out the byte at p and leaves the cursor there.
NextWithoutAdvancing(p) ==
  IF Len(bytes) > p
    THEN [b |-> bytes[p + 1], ok |-> TRUE, pos |-> p]
    ELSE [b |-> 0, ok |-> FALSE, pos |-> p]

\* Mutation of next that moves the cursor even when no byte is left.
NextMovingAtTheEnd(p) ==
  IF Len(bytes) > p
    THEN [b |-> bytes[p + 1], ok |-> TRUE, pos |-> p + 1]
    ELSE [b |-> 0, ok |-> FALSE, pos |-> p + 1]

\* Decoder.next: the byte at p and the advanced position, or ok = FALSE.
next(p) ==
  IF Len(bytes) > p
    THEN [b |-> bytes[p + 1], ok |-> TRUE, pos |-> p + 1]
    ELSE [b |-> 0, ok |-> FALSE, pos |-> p]

\* Decoder.peekNext
peekNext(p) ==
  IF Len(bytes) > p
    THEN [b |-> bytes[p + 1], ok |-> TRUE]
    ELSE [b |-> 0, ok |-> FALSE]

\* Mutation of peekForward that reports the byte 0 past the end.
PeekForwardZeroPastEnd(p, offset) ==
  IF Len(bytes) > (IF offset = 1 THEN p ELSE p + offset)
    THEN [b |-> bytes[(IF offset = 1 THEN p ELSE p + offset) + 1], ok |-> TRUE]
    ELSE [b |-> 0, ok |-> TRUE]

\* Decoder.peekForward: offset 1 reads bytes[pos], any other offset reads
\* bytes[pos + offset].
peekForward(p, offset) ==
  LET at == IF offset = 1 THEN p ELSE p + offset
  IN  IF Len(bytes) > at
        THEN [b |-> bytes[at + 1], ok |-> TRUE]
        ELSE [b |-> 0, ok |-> FALSE]

---------------------------------------------------------------------------
\* Bit-pattern matcher.  A pattern is the sequence of its templates (the
\* strings.Split by "|"), each template the 8 symbols after the "0b" prefix.

\* The inner loop of matchPattern: byte b against one template.
templateMatches(b, tpl) ==
  \A offset \in 0..7 :
    LET ch == tpl[offset + 1]
        bit == Bit(b, 7 - offset)
    IN  (ch = "0" \/ ch = "1") =>
          /\ ~(bit = 1 /\ ch # "1")
          /\ ~(bit = 0 /\ ch # "0")

\* Decoder.matchPattern with the cursor at p.
matchPattern(p, candidate, pattern) ==
  \A i \in 0..(Len(pattern) - 1) :
    IF i = 0
      THEN templateMatches(candidate, pattern[1])
      ELSE LET pk == peekForward(p, i)
           IN  pk.ok /\ templateMatches(pk.b, pattern[i + 1])

LockPattern == << <<"1","1","1","1","0","0","0","0">> >>
RepPattern == << <<"1","1","1","1","0","0","1","z">> >>
SegmentPattern == << <<"0","0","1","_","_","1","1","0">> >>

\* Table 4-12 dispatch of Decoder.Decode, in declaration order: one entry per
\* `case d.matchPattern(name, operation, pattern)`; fn is the builder the case calls
\* ("panic" for the RET cases, whose body is panic("TODO ...")).
InstructionTable ==
  <<
  [name |-> "MOV: Register/memory to/from register",
   pattern |-> <<<<"1","0","0","0","1","0","d","w">>>>, fn |-> "moveRegMemToReg"],
  [name |-> "MOV: Immediate to register/memory",
   pattern |-> <<<<"1","1","0","0","0","1","1","w">>>>, fn |-> "moveImmediateToRegOrMem"],
  [name |-> "MOV: Immediate to register",
   pattern |-> <<<<"1","0","1","1","w","r","e","g">>>>, fn |-> "moveImmediateToReg"],
  [name |-> "MOV: Memory to accumulator",
   pattern |-> <<<<"1","0","1","0","0","0","0","w">>>>, fn |-> "moveMemoryToAccumulator"],
  [name |-> "MOV: Accumulator to memory",
   pattern |-> <<<<"1","0","1","0","0","0","1","w">>>>, fn |-> "moveAccumulatorToMemory"],
  [name |-> "PUSH: Register/memory",
   pattern |-> <<<<"1","1","1","1","1","1","1","1">>, <<"_","_","1","1","0","_","_","_">>>>, fn |-> "pushRegOrMem"],
  [name |-> "PUSH: Register",
   pattern |-> <<<<"0","1","0","1","0","r","e","g">>>>, fn |-> "pushReg"],
  [name |-> "PUSH: segment register",
   pattern |-> <<<<"0","0","0","_","_","1","1","0">>>>, fn |-> "pushSegmentReg"],
  [name |-> "POP: Register/memory",
   pattern |-> <<<<"1","0","0","0","1","1","1","1">>, <<"_","_","0","0","0","_","_","_">>>>, fn |-> "popRegOrMem"],
  [name |-> "POP: Register",
   pattern |-> <<<<"0","1","0","1","1","r","e","g">>>>, fn |-> "popReg"],
  [name |-> "POP: segment register",
   pattern |-> <<<<"0","0","0","_","_","1","1","1">>>>, fn |-> "popSegmentReg"],
  [name |-> "XCHG: Register/memory with register",
   pattern |-> <<<<"1","0","0","0","0","1","1","w">>>>, fn |-> "exchangeRegOrMemWithReg"],
  [name |-> "XCHG: register with accumulator",
   pattern |-> <<<<"1","0","0","1","0","r","e","g">>>>, fn |-> "exchangeRegWithAccumulator"],
  [name |-> "IN: Fixed port",
   pattern |-> <<<<"1","1","1","0","0","1","0","w">>>>, fn |-> "inputFromFixedPort"],
  [name |-> "IN: Variable port",
   pattern |-> <<<<"1","1","1","0","1","1","0","w">>>>, fn |-> "inputFromVariablePort"],
  [name |-> "OUT: Fixed port",
   pattern |-> <<<<"1","1","1","0","0","1","1","w">>>>, fn |-> "outputToFixedPort"],
  [name |-> "OUT: Variable port",
   pattern |-> <<<<"1","1","1","0","1","1","1","w">>>>, fn |-> "outputToVariablePort"],
  [name |-> "XLAT - Translate byte to AL",
   pattern |-> <<<<"1","1","0","1","0","1","1","1">>>>, fn |-> "xlat"],
  [name |-> "LEA - Load effective address to register",
   pattern |-> <<<<"1","0","0","0","1","1","0","1">>>>, fn |-> "lea"],
  [name |-> "LDS - Load pointer to DS",
   pattern |-> <<<<"1","1","0","0","0","1","0","1">>>>, fn |-> "lds"],
  [name |-> "LES - Load pointer to ES",
   pattern |-> <<<<"1","1","0","0","0","1","0","0">>>>, fn |-> "les"],
  [name |-> "LAHF - Load AH with flags",
   pattern |-> <<<<"1","0","0","1","1","1","1","1">>>>, fn |-> "lahf"],
  [name |-> "SAHF - Store AH into flags",
   pattern |-> <<<<"1","0","0","1","1","1","1","0">>>>, fn |-> "sahf"],
  [name |-> "PUSHF - Push flags",
   pattern |-> <<<<"1","0","0","1","1","1","0","0">>>>, fn |-> "pushf"],
  [name |-> "POPF - Pop flags",
   pattern |-> <<<<"1","0","0","1","1","1","0","1">>>>, fn |-> "popf"],
  [name |-> "ADD: Reg/memory with register to either",
   pattern |-> <<<<"0","0","0","0","0","0","d","w">>>>, fn |-> "addRegOrMemToReg"],
  [name |-> "ADD: Immediate to register/memory",
   pattern |-> <<<<"1","0","0","0","0","0","s","w">>, <<"_","_","0","0","0","_","_","_">>>>, fn |-> "addImmediateToRegOrMem"],
  [name |-> "ADD: Immediate to accumulator",
   pattern |-> <<<<"0","0","0","0","0","1","0","w">>>>, fn |-> "addImmediateToAccumulator"],
  [name |-> "ADC: Reg/memory with register to either",
   pattern |-> <<<<"0","0","0","1","0","0","d","w">>>>, fn |-> "adcRegOrMemToReg"],
  [name |-> "ADC: Immediate to register/memory",
   pattern |-> <<<<"1","0","0","0","0","0","s","w">>, <<"_","_","0","1","0","_","_","_">>>>, fn |-> "adcImmediateToRegOrMem"],
  [name |-> "ADC: Immediate to accumulator",
   pattern |-> <<<<"0","0","0","1","0","1","0","w">>>>, fn |-> "adcImmediateToAccumulator"],
  [name |-> "INC: Register/memory",
   pattern |-> <<<<"1","1","1","1","1","1","1","w">>, <<"_","_","0","0","0","_","_","_">>>>, fn |-> "incRegOrMem"],
  [name |-> "INC: Register",
   pattern |-> <<<<"0","1","0","0","0","r","e","g">>>>, fn |-> "incReg"],
  [name |-> "AAA: ASCII adjust for add",
   pattern |-> <<<<"0","0","1","1","0","1","1","1">>>>, fn |-> "aaa"],
  [name |-> "DAA: Decimal adjust for add",
   pattern |-> <<<<"0","0","1","0","0","1","1","1">>>>, fn |-> "daa"],
  [name |-> "SUB: Reg/memory and register to either",
   pattern |-> <<<<"0","0","1","0","1","0","d","w">>>>, fn |-> "subRegOrMemFromReg"],
  [name |-> "SUB: Immediate to register/memory",
   pattern |-> <<<<"1","0","0","0","0","0","s","w">>, <<"_","_","1","0","1","_","_","_">>>>, fn |-> "subImmediateFromRegOrMem"],
  [name |-> "SUB: Immediate from accumulator",
   pattern |-> <<<<"0","0","1","0","1","1","0","w">>>>, fn |-> "subImmediateFromAccumulator"],
  [name |-> "SBB: Reg/memory and register to either",
   pattern |-> <<<<"0","0","0","1","1","0","d","w">>>>, fn |-> "sbbRegOrMemFromReg"],
  [name |-> "SBB: Immediate to register/memory",
   pattern |-> <<<<"1","0","0","0","0","0","s","w">>, <<"_","_","0","1","1","_","_","_">>>>, fn |-> "sbbImmediateFromRegOrMem"],
  [name |-> "SBB: Immediate from accumulator",
   pattern |-> <<<<"0","0","0","1","1","1","0","w">>>>, fn |-> "sbbImmediateFromAccumulator"],
  [name |-> "DEC: Register/memory",
   pattern |-> <<<<"1","1","1","1","1","1","1","w">>, <<"_","_","0","0","1","_","_","_">>>>, fn |-> "decRegOrMem"],
  [name |-> "DEC: Register",
   pattern |-> <<<<"0","1","0","0","1","r","e","g">>>>, fn |-> "decReg"],
  [name |-> "NEG: Change sign",
   pattern |-> <<<<"1","1","1","1","0","1","1","w">>, <<"_","_","0","1","1","_","_","_">>>>, fn |-> "neg"],
  [name |-> "CMP: Reg/memory and register",
   pattern |-> <<<<"0","0","1","1","1","0","d","w">>>>, fn |-> "cmpRegOrMemWithReg"],
  [name |-> "CMP: Immediate with register/memory",
   pattern |-> <<<<"1","0","0","0","0","0","s","w">>, <<"_","_","1","1","1","_","_","_">>>>, fn |-> "cmpImmediateWithRegOrMem"],
  [name |-> "CMP: Immediate from accumulator",
   pattern |-> <<<<"0","0","1","1","1","1","0","w">>>>, fn |-> "cmpImmediateWithAccumulator"],
  [name |-> "AAS: ASCII adjust for subtract",
   pattern |-> <<<<"0","0","1","1","1","1","1","1">>>>, fn |-> "aas"],
  [name |-> "DAS: decimal adjust for subtract",
   pattern |-> <<<<"0","0","1","0","1","1","1","1">>>>, fn |-> "das"],
  [name |-> "MUL: Unsigned multiply",
   pattern |-> <<<<"1","1","1","1","0","1","1","w">>, <<"_","_","1","0","0","_","_","_">>>>, fn |-> "mul"],
  [name |-> "IMUL: Signed multiply",
   pattern |-> <<<<"1","1","1","1","0","1","1","w">>, <<"_","_","1","0","1","_","_","_">>>>, fn |-> "imul"],
  [name |-> "AAM: ASCII adjust for multiply",
   pattern |-> <<<<"1","1","0","1","0","1","0","0">>, <<"0","0","0","0","1","0","1","0">>>>, fn |-> "aam"],
  [name |-> "DIV: Unsigned divide",
   pattern |-> <<<<"1","1","1","1","0","1","1","w">>, <<"_","_","1","1","0","_","_","_">>>>, fn |-> "div"],
  [name |-> "IDIV: Signed divide",
   pattern |-> <<<<"1","1","1","1","0","1","1","w">>, <<"_","_","1","1","1","_","_","_">>>>, fn |-> "idiv"],
  [name |-> "AAD: ASCII adjust for divide",
   pattern |-> <<<<"1","1","0","1","0","1","0","1">>, <<"0","0","0","0","1","0","1","0">>>>, fn |-> "aad"],
  [name |-> "CBW: convert byte to word",
   pattern |-> <<<<"1","0","0","1","1","0","0","0">>>>, fn |-> "cbw"],
  [name |-> "CWD: convert word to double word",
   pattern |-> <<<<"1","0","0","1","1","0","0","1">>>>, fn |-> "cwd"],
  [name |-> "NOT: Invert",
   pattern |-> <<<<"1","1","1","1","0","1","1","w">>, <<"_","_","0","1","0","_","_","_">>>>, fn |-> "not"],
  [name |-> "SHL/SAL: Shift logical/arithmetic left",
   pattern |-> <<<<"1","1","0","1","0","0","v","w">>, <<"_","_","1","0","0","_","_","_">>>>, fn |-> "shl"],
  [name |-> "SHR: Shift logical right",
   pattern |-> <<<<"1","1","0","1","0","0","v","w">>, <<"_","_","1","0","1","_","_","_">>>>, fn |-> "shr"],
  [name |-> "SAR: Shift arithmetic right",
   pattern |-> <<<<"1","1","0","1","0","0","v","w">>, <<"_","_","1","1","1","_","_","_">>>>, fn |-> "sar"],
  [name |-> "ROL: Rotate left",
   pattern |-> <<<<"1","1","0","1","0","0","v","w">>, <<"_","_","0","0","0","_","_","_">>>>, fn |-> "rol"],
  [name |-> "ROR: Rotate right",
   pattern |-> <<<<"1","1","0","1","0","0","v","w">>, <<"_","_","0","0","1","_","_","_">>>>, fn |-> "ror"],
  [name |-> "RCL: Rotate through carry left",
   pattern |-> <<<<"1","1","0","1","0","0","v","w">>, <<"_","_","0","1","0","_","_","_">>>>, fn |-> "rcl"],
  [name |-> "RCR: Rotate through carry right",
   pattern |-> <<<<"1","1","0","1","0","0","v","w">>, <<"_","_","0","1","1","_","_","_">>>>, fn |-> "rcr"],
  [name |-> "AND: Logical AND reg/mem with reg",
   pattern |-> <<<<"0","0","1","0","0","0","d","w">>>>, fn |-> "andRegOrMemWithReg"],
  [name |-> "AND: Logical AND immediate with reg/mem",
   pattern |-> <<<<"1","0","0","0","0","0","0","w">>, <<"_","_","1","0","0","_","_","_">>>>, fn |-> "andImmediateWithRegOrMem"],
  [name |-> "AND: Logical AND immediate with accumulator",
   pattern |-> <<<<"0","0","1","0","0","1","0","w">>>>, fn |-> "andImmediateWithAccumulator"],
  [name |-> "TEST: Logical compare reg/mem with reg",
   pattern |-> <<<<"1","0","0","0","0","1","d","w">>>>, fn |-> "testRegOrMemWithReg"],
  [name |-> "TEST: Logical compare immediate with reg/mem",
   pattern |-> <<<<"1","1","1","1","0","1","1","w">>, <<"_","_","0","0","0","_","_","_">>>>, fn |-> "testImmediateWithRegOrMem"],
  [name |-> "TEST: Logical compare immediate with accumulator",
   pattern |-> <<<<"1","0","1","0","1","0","0","w">>>>, fn |-> "testImmediateWithAccumulator"],
  [name |-> "OR: Logical OR reg/mem with reg",
   pattern |-> <<<<"0","0","0","0","1","0","d","w">>>>, fn |-> "orRegOrMemWithReg"],
  [name |-> "OR: Logical OR immediate with reg/mem",
   pattern |-> <<<<"1","0","0","0","0","0","0","w">>, <<"_","_","0","0","1","_","_","_">>>>, fn |-> "orImmediateWithRegOrMem"],
  [name |-> "OR: Logical OR immediate with accumulator",
   pattern |-> <<<<"0","0","0","0","1","1","0","w">>>>, fn |-> "orImmediateWithAccumulator"],
  [name |-> "XOR: Logical XOR reg/mem with reg",
   pattern |-> <<<<"0","0","1","1","0","0","d","w">>>>, fn |-> "xorRegOrMemWithReg"],
  [name |-> "XOR: Logical XOR immediate with reg/mem",
   pattern |-> <<<<"1","0","0","0","0","0","0","w">>, <<"_","_","1","1","0","_","_","_">>>>, fn |-> "xorImmediateWithRegOrMem"],
  [name |-> "XOR: Logical XOR immediate with accumulator",
   pattern |-> <<<<"0","0","1","1","0","1","0","w">>>>, fn |-> "xorImmediateWithAccumulator"],
  [name |-> "MOVS: move byte/word",
   pattern |-> <<<<"1","0","1","0","0","1","0","w">>>>, fn |-> "movs"],
  [name |-> "CMPS: compare byte/word",
   pattern |-> <<<<"1","0","1","0","0","1","1","w">>>>, fn |-> "cmps"],
  [name |-> "SCAS: scan byte/word",
   pattern |-> <<<<"1","0","1","0","1","1","1","w">>>>, fn |-> "scas"],
  [name |-> "LODS: load byte/word",
   pattern |-> <<<<"1","0","1","0","1","1","0","w">>>>, fn |-> "lods"],
  [name |-> "STOS: store byte/word",
   pattern |-> <<<<"1","0","1","0","1","0","1","w">>>>, fn |-> "stos"],
  [name |-> "CALL: Direct within segment",
   pattern |-> <<<<"1","1","1","0","1","0","0","0">>>>, fn |-> "callDirectWithinSegment"],
  [name |-> "CALL: Indirect within segment",
   pattern |-> <<<<"1","1","1","1","1","1","1","1">>, <<"_","_","0","1","0","_","_","_">>>>, fn |-> "callIndirectWithinSegment"],
  [name |-> "CALL: Direct intersegment",
   pattern |-> <<<<"1","0","0","1","1","0","1","0">>>>, fn |-> "callDirectIntersegment"],
  [name |-> "CALL: Indirect intersegment",
   pattern |-> <<<<"1","1","1","1","1","1","1","1">>, <<"_","_","0","1","1","_","_","_">>>>, fn |-> "callIndirectIntersegment"],
  [name |-> "JMP: Direct within segment",
   pattern |-> <<<<"1","1","1","0","1","0","0","1">>>>, fn |-> "jumpDirectWithinSegment"],
  [name |-> "JMP: Direct within segment-short",
   pattern |-> <<<<"1","1","1","0","1","0","1","1">>>>, fn |-> "jumpDirectWithinSegmentShort"],
  [name |-> "JMP: Indirect within segment",
   pattern |-> <<<<"1","1","1","1","1","1","1","1">>, <<"_","_","1","0","0","_","_","_">>>>, fn |-> "jumpIndirectWithinSegment"],
  [name |-> "JMP: Direct intersegment",
   pattern |-> <<<<"1","1","1","0","1","0","1","0">>>>, fn |-> "jumpDirectIntersegment"],
  [name |-> "JMP: Indirect intersegment",
   pattern |-> <<<<"1","1","1","1","1","1","1","1">>, <<"_","_","1","0","1","_","_","_">>>>, fn |-> "jumpIndirectIntersegment"],
  [name |-> "RET: Within segment",
   pattern |-> <<<<"1","1","0","0","0","0","1","1">>>>, fn |-> "panic"],
  [name |-> "RET: Within seg adding immed to SP",
   pattern |-> <<<<"1","1","0","0","0","0","1","0">>>>, fn |-> "panic"],
  [name |-> "RET: Intersegment",
   pattern |-> <<<<"1","1","0","0","1","0","1","1">>>>, fn |-> "panic"],
  [name |-> "RET: Intersegment adding immediate to SP",
   pattern |-> <<<<"1","1","0","0","1","0","1","0">>>>, fn |-> "panic"],
  [name |-> "JE/JZ: Jump on equal/zero",
   pattern |-> <<<<"0","1","1","1","0","1","0","0">>>>, fn |-> "jumpConditionally"],
  [name |-> "JL/JNGE: Jump on less/not greater or equal",
   pattern |-> <<<<"0","1","1","1","1","1","0","0">>>>, fn |-> "jumpConditionally"],
  [name |-> "JLE/JNG: Jump on less or equal/not greater",
   pattern |-> <<<<"0","1","1","1","1","1","1","0">>>>, fn |-> "jumpConditionally"],
  [name |-> "JB/JNAE: Jump on below/not above or equal",
   pattern |-> <<<<"0","1","1","1","0","0","1","0">>>>, fn |-> "jumpConditionally"],
  [name |-> "JBE/JNA: Jump on below or equal/not above",
   pattern |-> <<<<"0","1","1","1","0","1","1","0">>>>, fn |-> "jumpConditionally"],
  [name |-> "JP/JPE: Jump on parity/even",
   pattern |-> <<<<"0","1","1","1","1","0","1","0">>>>, fn |-> "jumpConditionally"],
  [name |-> "JO: Jump on overflow",
   pattern |-> <<<<"0","1","1","1","0","0","0","0">>>>, fn |-> "jumpConditionally"],
  [name |-> "JS: Jump on sign",
   pattern |-> <<<<"0","1","1","1","1","0","0","0">>>>, fn |-> "jumpConditionally"],
  [name |-> "JNE/JNZ: Jump on not equal/not zero",
   pattern |-> <<<<"0","1","1","1","0","1","0","1">>>>, fn |-> "jumpConditionally"],
  [name |-> "JNL/JGE: Jump on not less/greater or equal",
   pattern |-> <<<<"0","1","1","1","1","1","0","1">>>>, fn |-> "jumpConditionally"],
  [name |-> "JNLE/JG: Jump on not less nor equal/greater",
   pattern |-> <<<<"0","1","1","1","1","1","1","1">>>>, fn |-> "jumpConditionally"],
  [name |-> "JNB/JAE: Jump on not below/above or equal",
   pattern |-> <<<<"0","1","1","1","0","0","1","1">>>>, fn |-> "jumpConditionally"],
  [name |-> "JNBE/JA: Jump on not below nor equal/above",
   pattern |-> <<<<"0","1","1","1","0","1","1","1">>>>, fn |-> "jumpConditionally"],
  [name |-> "JNP/JPO: Jump on not parity/odd",
   pattern |-> <<<<"0","1","1","1","1","0","1","1">>>>, fn |-> "jumpConditionally"],
  [name |-> "JNO: Jump on not overflow",
   pattern |-> <<<<"0","1","1","1","0","0","0","1">>>>, fn |-> "jumpConditionally"],
  [name |-> "JNS: Jump on not sign",
   pattern |-> <<<<"0","1","1","1","1","0","0","1">>>>, fn |-> "jumpConditionally"],
  [name |-> "JCXZ: Jump if CX register is zero",
   pattern |-> <<<<"1","1","1","0","0","0","1","1">>>>, fn |-> "jumpConditionally"],
  [name |-> "LOOP: Loop CX times",
   pattern |-> <<<<"1","1","1","0","0","0","1","0">>>>, fn |-> "jumpConditionally"],
  [name |-> "LOOPZ/LOOPE: Loop while zero/equal",
   pattern |-> <<<<"1","1","1","0","0","0","0","1">>>>, fn |-> "jumpConditionally"],
  [name |-> "LOOPNZ/LOOPNE: Loop while not zero/not equal",
   pattern |-> <<<<"1","1","1","0","0","0","0","0">>>>, fn |-> "jumpConditionally"],
  [name |-> "INT: Type specified",
   pattern |-> <<<<"1","1","0","0","1","1","0","1">>>>, fn |-> "interruptWithType"],
  [name |-> "INT: type 3",
   pattern |-> <<<<"1","1","0","0","1","1","0","0">>>>, fn |-> "interruptType3"],
  [name |-> "INTO: interrupt on overflow",
   pattern |-> <<<<"1","1","0","0","1","1","1","0">>>>, fn |-> "interruptOnOverflow"],
  [name |-> "IRET: Interrupt return",
   pattern |-> <<<<"1","1","0","0","1","1","1","1">>>>, fn |-> "interruptReturn"],
  [name |-> "CLC: Clear carry",
   pattern |-> <<<<"1","1","1","1","1","0","0","0">>>>, fn |-> "clc"],
  [name |-> "CMC: Complement carry",
   pattern |-> <<<<"1","1","1","1","0","1","0","1">>>>, fn |-> "cmc"],
  [name |-> "STC: Set carry",
   pattern |-> <<<<"1","1","1","1","1","0","0","1">>>>, fn |-> "stc"],
  [name |-> "CLD: Clear direction",
   pattern |-> <<<<"1","1","1","1","1","1","0","0">>>>, fn |-> "cld"],
  [name |-> "STD: set direction",
   pattern |-> <<<<"1","1","1","1","1","1","0","1">>>>, fn |-> "std"],
  [name |-> "CLI: Clear interrupt",
   pattern |-> <<<<"1","1","1","1","1","0","1","0">>>>, fn |-> "cli"],
  [name |-> "STI: Set interrupt",
   pattern |-> <<<<"1","1","1","1","1","0","1","1">>>>, fn |-> "sti"],
  [name |-> "HLT: Halt",
   pattern |-> <<<<"1","1","1","1","0","1","0","0">>>>, fn |-> "hlt"],
  [name |-> "WAIT: Wait",
   pattern |-> <<<<"1","0","0","1","1","0","1","1">>>>, fn |-> "wait"]
  >>
---------------------------------------------------------------------------
\* Operand resolution and field decoders.  Each takes the cursor position p
\* it is called at and returns the position it leaves the cursor at.

\* decodeOperand: [mod|reg|r/m]
decodeOperand(operand) ==
  [mod |-> Shr(operand, 6), reg |-> Shr(operand, 3) % 8, rm |-> operand % 8]

\* `^signed + 1` on an int8 whose unsigned image is u: Go wraps at 8 bits.
NegateInt8(u) == ToInt8((255 - (u % 256)) + 1)

\* `^signed + 1` on an int16 whose unsigned image is u: Go wraps at 16 bits.
NegateInt16(u) == ToInt16((65535 - (u % 65536)) + 1)

\* Mutation of calculateEffectiveAddress that drops the direct-address
\* exception: MOD = 00 always prints the base-register equation of R/M.
CalculateEffectiveAddressWithoutDirect(rm, displacementValue, mod, seg) ==
  (IF seg # "" THEN seg \o ":" ELSE "")
    \o (IF mod = MemoryModeNoDisplacementFieldEncoding
          THEN "[" \o Equation(rm) \o "]"
          ELSE "[" \o Equation(rm) \o " + " \o ToString(displacementValue) \o "]")

\* Decoder.calculateEffectiveAddress, with d.segment passed as seg: the
\* address by MOD, behind "<segment>:" when an override is active.
calculateEffectiveAddress(rm, displacementValue, mod, seg) ==
  (IF seg # "" THEN seg \o ":" ELSE "")
    \o (CASE mod = MemoryModeNoDisplacementFieldEncoding ->
               "[" \o (IF rm = DirectAddressRM
                         THEN ToString(displacementValue)
                         ELSE Equation(rm)) \o "]"
          [] mod = MemoryMode8DisplacementFieldEncoding ->
               IF ToInt8(displacementValue) < 0
                 THEN "[" \o Equation(rm) \o " - "
                          \o ToString(NegateInt8(displacementValue)) \o "]"
                 ELSE "[" \o Equation(rm) \o " + "
                          \o ToString(displacementValue) \o "]"
          [] mod = MemoryMode16DisplacementFieldEncoding ->
               IF ToInt16(displacementValue) < 0
                 THEN "[" \o Equation(rm) \o " - "
                          \o ToString(NegateInt16(displacementValue)) \o "]"
                 ELSE "[" \o Equation(rm) \o " + "
                          \o ToString(displacementValue) \o "]")

\* One d.next() for a field of one byte: the byte, the cursor it leaves and
\* the error reported when the byte is missing.
oneByte(missing, p) ==
  LET v == next(p)
  IN  IF ~v.ok THEN [value |-> 0, pos |-> v.pos, err |-> missing]
      ELSE [value |-> v.b, pos |-> v.pos, err |-> ""]

\* Mutation of twoBytes that takes 0 for a missing high byte.
TwoBytesWithDefaultHigh(lowMissing, highMissing, p) ==
  IF ~next(p).ok THEN [value |-> 0, pos |-> p, err |-> lowMissing]
  ELSE [value |-> LittleEndianUint16(next(p).b, next(p + 1).b),
        pos |-> next(p + 1).pos, err |-> ""]

\* Two d.next() calls for a little-endian field of two bytes, low byte
\* first; the second call is made only when the first found a byte.
twoBytes(lowMissing, highMissing, p) ==
  LET low == next(p)
      high == next(low.pos)
  IN  IF ~low.ok THEN [value |-> 0, pos |-> low.pos, err |-> lowMissing]
      ELSE IF ~high.ok THEN [value |-> 0, pos |-> high.pos, err |-> highMissing]
      ELSE [value |-> LittleEndianUint16(low.b, high.b), pos |-> high.pos,
            err |-> ""]

\* The displacement a resolver reads for a memory MOD before it calls
\* calculateEffectiveAddress (decodeUnaryRegOrMem and decodeBinaryRegOrMem
\* read it the same way, with the same errors): two bytes for a direct
\* address and for MOD = 10, one for MOD = 01, none otherwise.
displacement(instructionName, mod, rm, p) ==
  CASE mod = MemoryModeNoDisplacementFieldEncoding ->
         IF rm = DirectAddressRM
           THEN twoBytes("expected to receive the Low displacement value for direct address in the '"
                           \o instructionName \o "' instruction",
                         "expected to receive the High displacement value for direct address in the '"
                           \o instructionName \o "' instruction", p)
           ELSE [value |-> 0, pos |-> p, err |-> ""]
    [] mod = MemoryMode8DisplacementFieldEncoding ->
         oneByte("expected to receive the displacement value for the '"
                   \o instructionName \o "' instruction", p)
    [] mod = MemoryMode16DisplacementFieldEncoding ->
         twoBytes("expected to receive the Low displacement value for the '"
                    \o instructionName \o "' instruction",
                  "expected to receive the High displacement value for the '"
                    \o instructionName \o "' instruction", p)

\* The memory cases of decodeUnaryRegOrMem once the displacement dv is read.
unaryMemory(rm, mod, seg, dv) ==
  IF dv.err # "" THEN [text |-> "", pos |-> dv.pos, err |-> dv.err]
  ELSE [text |-> calculateEffectiveAddress(rm, dv.value, mod, seg),
        pos |-> dv.pos, err |-> ""]

\* Decoder.decodeUnaryRegOrMem
decodeUnaryRegOrMem(instructionName, mod, rm, isWord, p, seg) ==
  IF mod = RegisterModeFieldEncoding
    THEN [text |-> RegName(rm, isWord), pos |-> p, err |-> ""]
    ELSE unaryMemory(rm, mod, seg, displacement(instructionName, mod, rm, p))

\* Mutation of the direction test that makes REG the destination for D = 0.
AssignAgainstDirection(dir, regName, other, p) ==
  IF dir # RegIsDestination
    THEN [dest |-> regName, src |-> other, pos |-> p, err |-> ""]
    ELSE [dest |-> other, src |-> regName, pos |-> p, err |-> ""]

\* The assignment of decodeBinaryRegOrMem's two results by the direction flag.
assignByDirection(dir, regName, other, p) ==
  IF dir = RegIsDestination
    THEN [dest |-> regName, src |-> other, pos |-> p, err |-> ""]
    ELSE [dest |-> other, src |-> regName, pos |-> p, err |-> ""]

\* The memory cases of decodeBinaryRegOrMem once the displacement dv is read.
binaryMemory(regName, rm, mod, dir, seg, dv) ==
  IF dv.err # "" THEN [dest |-> "", src |-> "", pos |-> dv.pos, err |-> dv.err]
  ELSE assignByDirection(dir, regName,
         calculateEffectiveAddress(rm, dv.value, mod, seg), dv.pos)

\* Decoder.decodeBinaryRegOrMem
decodeBinaryRegOrMem(instructionName, mod, reg, rm, isWord, dir, p, seg) ==
  IF mod = RegisterModeFieldEncoding
    THEN assignByDirection(dir, RegName(reg, isWord), RegName(rm, isWord), p)
    ELSE binaryMemory(RegName(reg, isWord), rm, mod, dir, seg,
                      displacement(instructionName, mod, rm, p))

\* Decoder.decodeImmediate
decodeImmediate(instructionName, isWord, p) ==
  IF isWord
    THEN twoBytes("expected to get the immediate value (low) for the '"
                    \o instructionName \o "' instruction",
                  "expected to get the immediate value (high) for the '"
                    \o instructionName \o "' instruction", p)
    ELSE oneByte("expected to get the immediate value for the '"
                   \o instructionName \o "' instruction", p)

\* Decoder.decodeAddress
decodeAddress(instructionName, isWord, p) ==
  IF isWord
    THEN twoBytes("expected to get the address (low) for the '"
                    \o instructionName \o "' instruction",
                  "expected to get the address (high) for the '"
                    \o instructionName \o "' instruction", p)
    ELSE oneByte("expected to get the address for the '"
                   \o instructionName \o "' instruction", p)

---------------------------------------------------------------------------
\* Builder results.  obs records what the resolvers did for the instruction
\* (observation only): the MOD and R/M resolved and the cursor before and
\* after the resolver, the cursor before and after the immediate field and
\* the immediate as printed.  -1 and "" stand for "not used".

NoObs ==
  [eaMod |-> -1, eaRm |-> -1, eaAt |-> -1, eaEnd |-> -1, eaText |-> "",
   immAt |-> -1, immEnd |-> -1, immShown |-> ""]

ObsEA(mod, rm, at, end, text) ==
  [NoObs EXCEPT !.eaMod = mod, !.eaRm = rm, !.eaAt = at, !.eaEnd = end,
                !.eaText = text]

Ok(text, p, lbl, obs) ==
  [text |-> text, err |-> "", pos |-> p, labels |-> lbl, obs |-> obs]

Fail(msg, p, lbl) ==
  [text |-> "", err |-> msg, pos |-> p, labels |-> lbl, obs |-> NoObs]

operandMissing(instructionName) ==
  "expected to get an operand for the '" \o instructionName \o "' instruction"

regMismatch(regPattern, instructionName) ==
  "expected the reg field to be " \o Bin3(regPattern) \o " for the '"
    \o instructionName \o "' instruction"

sizeName(isWord) == IF isWord THEN "word" ELSE "byte"

accumulator(isWord) == IF isWord THEN "ax" ELSE "al"

\* The operand byte a builder reads after the opcode (`operand, ok :=
\* d.next()`), split by decodeOperand.
operandByte(p) ==
  LET operand == next(p)
      m == decodeOperand(operand.b)
  IN  [ok |-> operand.ok, pos |-> operand.pos,
       mod |-> m.mod, reg |-> m.reg, rm |-> m.rm]

\* A builder's early return before any operand is resolved, at cursor p.
unresolved(msg, p) ==
  [text |-> "", dest |-> "", src |-> "", pos |-> p, err |-> msg,
   mod |-> -1, rm |-> -1, at |-> -1]

\* The result r of decodeUnaryRegOrMem for the operand byte o.
resolvedUnary(r, o) ==
  [text |-> r.text, dest |-> "", src |-> "", pos |-> r.pos, err |-> r.err,
   mod |-> o.mod, rm |-> o.rm, at |-> o.pos]

\* The result r of decodeBinaryRegOrMem for the operand byte o; text is the
\* operand the R/M field named.
resolvedBinary(r, o, dir) ==
  [text |-> IF dir = RegIsDestination THEN r.src ELSE r.dest,
   dest |-> r.dest, src |-> r.src, pos |-> r.pos, err |-> r.err,
   mod |-> o.mod, rm |-> o.rm, at |-> o.pos]

\* The opening shared by the builders of one register/memory operand: the
\* operand byte o must be there, its REG field must equal regPattern, then
\* decodeUnaryRegOrMem resolves the operand.
unaryOperand(regPattern, missing, mismatch, instructionName, isWord, seg, o) ==
  IF ~o.ok THEN unresolved(missing, o.pos)
  ELSE IF o.reg # regPattern THEN unresolved(mismatch, o.pos)
  ELSE resolvedUnary(decodeUnaryRegOrMem(instructionName, o.mod, o.rm, isWord,
                                         o.pos, seg), o)

\* The opening of the builders of two operands: the operand byte o must be
\* there, then decodeBinaryRegOrMem resolves both operands.
binaryOperands(instructionName, isWord, dir, seg, o) ==
  IF ~o.ok THEN unresolved(operandMissing(instructionName), o.pos)
  ELSE resolvedBinary(decodeBinaryRegOrMem(instructionName, o.mod, o.reg, o.rm,
                                           isWord, dir, o.pos, seg), o, dir)

\* The observation of a resolved operand d.
ObsOperand(d) == ObsEA(d.mod, d.rm, d.at, d.pos, d.text)

\* The closing Sprintf of the two-operand builders.
binaryText(mnemonic, lbl, r) ==
  IF r.err # "" THEN Fail(r.err, r.pos, lbl)
  ELSE Ok(mnemonic \o " " \o r.dest \o ", " \o r.src \o "\n", r.pos, lbl,
          ObsOperand(r))

\* The shape shared by Decoder.regOrMemWithReg's callers, moveRegMemToReg,
\* exchangeRegOrMemWithReg, lea, lds and les: read the operand byte, resolve
\* both operands, print "<mnemonic> <dest>, <src>".
binaryRegOrMem(mnemonic, instructionName, isWord, dir, p, seg, lbl) ==
  binaryText(mnemonic, lbl,
             binaryOperands(instructionName, isWord, dir, seg, operandByte(p)))

\* Decoder.regOrMemWithReg and the Sprintf of its callers.
regOrMemWithReg(mnemonic, instructionName, operation, p, seg, lbl) ==
  binaryRegOrMem(mnemonic, instructionName,
                 Bit(operation, 0) = WordOperation, Bit(operation, 1),
                 p, seg, lbl)

\* How a builder prints an immediate: "commented" is the unsigned value with
\* its negative 16-bit reading as a comment, "signed" the sign-extended low
\* byte, "unsigned" the value alone.
immediateShown(style, value) ==
  CASE style = "commented" ->
         ToString(value)
           \o (IF ToInt16(value) < 0
                 THEN " ; or " \o ToString(ToInt16(value)) ELSE "")
    [] style = "signed" -> ToString(ToInt8(value))
    [] style = "unsigned" -> ToString(value)

\* The immediate that follows a resolved destination d: nothing is read when
\* the destination failed.
immediateOperand(instructionName, isWide, d) ==
  IF d.err # "" THEN [value |-> 0, pos |-> d.pos, err |-> d.err]
  ELSE decodeImmediate(instructionName, isWide, d.pos)

\* The closing Sprintf of the immediate-to-register/memory builders:
\* "<mnemonic> <dest>, <immediate>", with the size before the immediate of a
\* memory destination.
immediateText(mnemonic, isWord, style, lbl, d, imm) ==
  IF imm.err # "" THEN Fail(imm.err, imm.pos, lbl)
  ELSE Ok(mnemonic \o " " \o d.text \o ", "
            \o (IF d.mod # RegisterModeFieldEncoding
                  THEN sizeName(isWord) \o " " ELSE "")
            \o immediateShown(style, imm.value) \o "\n",
          imm.pos, lbl,
          [ObsOperand(d) EXCEPT !.immAt = d.pos, !.immEnd = imm.pos,
                                !.immShown = immediateShown(style, imm.value)])

\* An immediate-to-register/memory builder after its destination d: an
\* immediate of two bytes when isWide, of one otherwise.
immediateToRegOrMem(mnemonic, instructionName, isWord, isWide, style, lbl, d) ==
  immediateText(mnemonic, isWord, style, lbl, d,
                immediateOperand(instructionName, isWide, d))

\* Decoder.buildImmediateWithRegOrMemInstruction (and/or/xor/test immediate)
\* and moveImmediateToRegOrMem, which has the same body with "mov", 000 and
\* the instruction name 'immediate to register/memory': the immediate is
\* sized by W.
buildImmediateWithRegOrMemInstruction(mnemonic, regPattern, instructionName, operation, p, seg, lbl) ==
  immediateToRegOrMem(mnemonic, instructionName,
    Bit(operation, 0) = WordOperation, Bit(operation, 0) = WordOperation,
    "commented", lbl,
    unaryOperand(regPattern, operandMissing(instructionName),
                 regMismatch(regPattern, instructionName), instructionName,
                 Bit(operation, 0) = WordOperation, seg, operandByte(p)))

\* Mutation of buildImmediateWithRegOrMemArithmeticInstruction that ignores
\* the S bit: the immediate is sized by W alone and printed unsigned.
ImmediateArithmeticIgnoringSign(mnemonic, regPattern, instructionName, operation, p, seg, lbl) ==
  buildImmediateWithRegOrMemInstruction(mnemonic, regPattern, instructionName,
                                        operation, p, seg, lbl)

\* buildImmediateWithRegOrMemArithmeticInstruction (the 100000sw group): the
\* immediate is decoded as a word when W = 1 and S = 0 (`isWord &&
\* !isSigned`), and printed as int8 when S = 1.
buildImmediateWithRegOrMemArithmeticInstruction(mnemonic, regPattern, instructionName, operation, p, seg, lbl) ==
  immediateToRegOrMem(mnemonic, instructionName,
    Bit(operation, 0) = WordOperation,
    Bit(operation, 0) = WordOperation /\ Bit(operation, 1) # SignExtension,
    IF Bit(operation, 1) = SignExtension THEN "signed" ELSE "unsigned", lbl,
    unaryOperand(regPattern, operandMissing(instructionName),
                 regMismatch(regPattern, instructionName), instructionName,
                 Bit(operation, 0) = WordOperation, seg, operandByte(p)))

\* The closing Sprintf of immediateWithAccumulator's callers.
accumulatorText(mnemonic, isWord, p, lbl, imm) ==
  IF imm.err # "" THEN Fail(imm.err, imm.pos, lbl)
  ELSE Ok(mnemonic \o " " \o accumulator(isWord) \o ", "
            \o ToString(imm.value) \o "\n",
          imm.pos, lbl,
          [NoObs EXCEPT !.immAt = p, !.immEnd = imm.pos,
                        !.immShown = ToString(imm.value)])

\* Decoder.immediateWithAccumulator and the Sprintf of its callers.
immediateWithAccumulator(mnemonic, instructionName, operation, p, lbl) ==
  accumulatorText(mnemonic, Bit(operation, 0) = WordOperation, p, lbl,
    decodeImmediate(instructionName, Bit(operation, 0) = WordOperation, p))

\* The closing Sprintf of the one-operand builders: `lead`, the size when
\* the operand d is in memory, the operand, `trail`.
unaryText(lead, size, trail, lbl, d) ==
  IF d.err # "" THEN Fail(d.err, d.pos, lbl)
  ELSE Ok(lead \o (IF d.mod # RegisterModeFieldEncoding THEN size ELSE "")
            \o d.text \o trail \o "\n",
          d.pos, lbl, ObsOperand(d))

\* mulOrDiv, and incRegOrMem, decRegOrMem and not, which have the same body:
\* "<mnemonic> <size> <dest>" for a memory operand, "<mnemonic> <dest>" for a
\* register.
mulOrDiv(mnemonic, regPattern, instructionName, operation, p, seg, lbl) ==
  unaryText(mnemonic \o " ",
    sizeName(Bit(operation, 0) = WordOperation) \o " ", "", lbl,
    unaryOperand(regPattern, operandMissing(instructionName),
                 regMismatch(regPattern, instructionName), instructionName,
                 Bit(operation, 0) = WordOperation, seg, operandByte(p)))

\* bitShift (the 110100vw group): the count is "cl" when V = 1, "1" otherwise.
bitShift(mnemonic, regPattern, instructionName, operation, p, seg, lbl) ==
  unaryText(mnemonic \o " ",
    sizeName(Bit(operation, 0) = WordOperation) \o " ",
    ", " \o (IF Bit(operation, 1) = CountByCL THEN "cl" ELSE "1"), lbl,
    unaryOperand(regPattern, operandMissing(instructionName),
                 regMismatch(regPattern, instructionName), instructionName,
                 Bit(operation, 0) = WordOperation, seg, operandByte(p)))

\* The shape of pushRegOrMem, popRegOrMem and the indirect call and jmp
\* builders: a word operand behind a fixed REG field, printed after `lead`.
wordRegOrMem(lead, regPattern, instructionName, missing, mismatch, p, seg, lbl) ==
  unaryText(lead, "", "", lbl,
    unaryOperand(regPattern, missing, mismatch, instructionName, TRUE, seg,
                 operandByte(p)))

\* A builder that prints a register selected by the low three opcode bits
\* (pushReg, popReg, incReg, decReg, exchangeRegWithAccumulator).
regInOpcode(lead, operation, p, lbl) ==
  Ok(lead \o WordReg(operation % 8) \o "\n", p, lbl, NoObs)

\* pushSegmentReg, popSegmentReg: reg := (operation >> 3) & 0b111.
segmentRegInOpcode(lead, operation, p, lbl) ==
  Ok(lead \o SegReg(Shr(operation, 3) % 8) \o "\n", p, lbl, NoObs)

\* A builder that returns a fixed line.
fixedText(text, p, lbl) == Ok(text, p, lbl, NoObs)

\* movs, cmps, scas, lods, stos: "<stem>w" or "<stem>b" by the W bit.
stringInstruction(stem, operation, p, lbl) ==
  Ok(stem \o (IF Bit(operation, 0) = WordOperation THEN "w" ELSE "b") \o "\n",
     p, lbl, NoObs)

\* The closing Sprintf of moveImmediateToReg.
registerImmediateText(regName, p, lbl, imm) ==
  IF imm.err # "" THEN Fail(imm.err, imm.pos, lbl)
  ELSE Ok("mov " \o regName \o ", " \o immediateShown("commented", imm.value)
            \o "\n",
          imm.pos, lbl,
          [NoObs EXCEPT !.immAt = p, !.immEnd = imm.pos,
                        !.immShown = immediateShown("commented", imm.value)])

\* moveImmediateToReg: W is bit 3 of the opcode, the register its low bits.
moveImmediateToReg(operation, p, lbl) ==
  registerImmediateText(
    RegName(operation % 8, Bit(operation, 3) = WordOperation), p, lbl,
    decodeImmediate("MOV: immediate to register",
                    Bit(operation, 3) = WordOperation, p))

\* moveMemoryToAccumulator
moveMemoryToAccumulator(operation, p, lbl) ==
  LET isWord == Bit(operation, 0) = WordOperation
      address == decodeAddress("MOV: memory to accumulator", isWord, p)
  IN  IF address.err # "" THEN Fail(address.err, address.pos, lbl)
      ELSE Ok("mov " \o accumulator(isWord) \o ", ["
                \o ToString(address.value) \o "]\n", address.pos, lbl, NoObs)

\* moveAccumulatorToMemory
moveAccumulatorToMemory(operation, p, lbl) ==
  LET isWord == Bit(operation, 0) = WordOperation
      address == decodeAddress("MOV: accumulator to address", isWord, p)
  IN  IF address.err # "" THEN Fail(address.err, address.pos, lbl)
      ELSE Ok("mov [" \o ToString(address.value) \o "], "
                \o accumulator(isWord) \o "\n", address.pos, lbl, NoObs)

\* inputFromFixedPort
inputFromFixedPort(operation, p, lbl) ==
  LET port == next(p)
  IN  IF ~port.ok
        THEN Fail("expected to get a port number for the 'IN: from fixed port' instruction",
                  port.pos, lbl)
        ELSE Ok("in " \o accumulator(Bit(operation, 0) = WordOperation) \o ", "
                  \o ToString(port.b) \o "\n", port.pos, lbl, NoObs)

\* outputToFixedPort
outputToFixedPort(operation, p, lbl) ==
  LET port == next(p)
  IN  IF ~port.ok
        THEN Fail("expected to get a port number for the 'OUT: to a fixed port' instruction",
                  port.pos, lbl)
        ELSE Ok("out " \o ToString(port.b) \o ", "
                  \o accumulator(Bit(operation, 0) = WordOperation) \o "\n",
                port.pos, lbl, NoObs)

\* aam and aad: the second byte must be 00001010.
asciiAdjust(mnemonic, upper, p, lbl) ==
  LET nx == next(p)
  IN  IF ~nx.ok
        THEN Fail("expected to get an operand for the '" \o upper \o "' instruction",
                  nx.pos, lbl)
      ELSE IF nx.b # 10
        THEN Fail("expected the operand to be 00001010 for the '" \o upper
                    \o "' instruction", nx.pos, lbl)
      ELSE Ok(mnemonic \o "\n", nx.pos, lbl, NoObs)

\* callDirectWithinSegment, jumpDirectWithinSegment:
\* pointer := uint32(increment) + uint32(d.pos), the increment a uint16: an
\* unsigned sum, which cannot wrap for a cursor below 2^32 - 2^16.
directWithinSegment(mnemonic, instructionName, p, lbl) ==
  LET low == next(p)
      high == next(low.pos)
  IN  IF ~low.ok
        THEN Fail("expected to get a lower instruction pointer byte in '"
                    \o instructionName \o "'", low.pos, lbl)
      ELSE IF ~high.ok
        THEN Fail("expected to get a higher instruction pointer byte in '"
                    \o instructionName \o "'", high.pos, lbl)
      ELSE Ok(mnemonic \o " "
                \o ToString(LittleEndianUint16(low.b, high.b) + high.pos)
                \o "\n", high.pos, lbl, NoObs)

\* callDirectIntersegment, jumpDirectIntersegment: "<mnemonic> <cs>:<ip>"
directIntersegment(mnemonic, instructionName, p, lbl) ==
  LET ipLow == next(p)
      ipHigh == next(ipLow.pos)
      csLow == next(ipHigh.pos)
      csHigh == next(csLow.pos)
  IN  IF ~ipLow.ok
        THEN Fail("expected to get a lower instruction pointer byte in '"
                    \o instructionName \o "'", ipLow.pos, lbl)
      ELSE IF ~ipHigh.ok
        THEN Fail("expected to get a higher instruction pointer byte in '"
                    \o instructionName \o "'", ipHigh.pos, lbl)
      ELSE IF ~csLow.ok
        THEN Fail("expected to get a lower code segment byte in '"
                    \o instructionName \o "'", csLow.pos, lbl)
      ELSE IF ~csHigh.ok
        THEN Fail("expected to get a higher code segment byte in '"
                    \o instructionName \o "'", csHigh.pos, lbl)
      ELSE Ok(mnemonic \o " "
                \o ToString(LittleEndianUint16(csLow.b, csHigh.b)) \o ":"
                \o ToString(LittleEndianUint16(ipLow.b, ipHigh.b)) \o "\n",
              csHigh.pos, lbl, NoObs)

\* Mutation of createLabelName that numbers the labels with a counter shared
\* by every Decoder of the process.
CreateLabelNameFromSharedCounter(position) ==
  "label__" \o ToString(Cardinality(DOMAIN labels) + Cardinality(DOMAIN twin.labels))

\* createLabelName
createLabelName(position) == "label__" \o ToString(position)

\* d.labels[k] = v on a Go map.
MapPut(m, k, v) ==
  [x \in (DOMAIN m) \cup {k} |-> IF x = k THEN v ELSE m[x]]

\* jumpDirectWithinSegmentShort
jumpDirectWithinSegmentShort(p, lbl) ==
  LET pointerIncrement == next(p)
      address == pointerIncrement.pos + ToInt8(pointerIncrement.b)
      labelName == createLabelName(address)
  IN  IF ~pointerIncrement.ok
        THEN Fail("expected to get an 8-bit instruction pointer increment in 'JMP: Direct within segment-short'",
                  pointerIncrement.pos, lbl)
        ELSE Ok("jmp " \o labelName \o "\n", pointerIncrement.pos,
                MapPut(lbl, address, labelName), NoObs)

\* Mutation of jumpConditionally that takes the branch target relative to
\* the displacement byte, not to the byte after it.
JumpConditionallyFromDisplacementByte(operation, p, lbl) ==
  IF ~next(p).ok
    THEN Fail("expected to get a jump instruction pointer for the '"
                \o JumpNames(operation) \o "' instruction", p, lbl)
    ELSE Ok(JumpNames(operation) \o " "
              \o createLabelName(p + ToInt8(next(p).b))
              \o (IF JumpAlternativeNames(operation) # ""
                    THEN " ; " \o JumpAlternativeNames(operation) ELSE "")
              \o "\n",
            p + 1,
            MapPut(lbl, p + ToInt8(next(p).b),
                   createLabelName(p + ToInt8(next(p).b))), NoObs)

\* jumpConditionally
jumpConditionally(operation, p, lbl) ==
  LET name == JumpNames(operation)
      altName == JumpAlternativeNames(operation)
      comment == IF altName # "" THEN "; " \o altName ELSE ""
      instructionPointer == next(p)
      labelLocation == instructionPointer.pos + ToInt8(instructionPointer.b)
      labelName == createLabelName(labelLocation)
  IN  IF ~instructionPointer.ok
        THEN Fail("expected to get a jump instruction pointer for the '"
                    \o name \o "' instruction", instructionPointer.pos, lbl)
        ELSE Ok(IF comment = ""
                  THEN name \o " " \o labelName \o "\n"
                  ELSE name \o " " \o labelName \o " " \o comment \o "\n",
                instructionPointer.pos,
                MapPut(lbl, labelLocation, labelName), NoObs)

\* interruptWithType
interruptWithType(p, lbl) ==
  LET data == next(p)
  IN  IF ~data.ok
        THEN Fail("expected to get a type for the 'INT: type specified' instruction",
                  data.pos, lbl)
        ELSE Ok("int " \o ToString(data.b) \o "\n", data.pos, lbl, NoObs)

\* Mutation of repeatPrefix that never looks at the following opcode.
RepeatPrefixPlain(operation, p) == "rep"

\* repeatPrefix, with the cursor after the prefix byte at p.
repeatPrefix(operation, p) ==
  LET loop == Bit(operation, 0)
      nx == peekNext(p)
      family == Shr(nx.b, 1)                   \* discard the W flag
      mnemonic == CASE family = 82 -> "movs"   \* 0b1010010
                    [] family = 83 -> "cmps"   \* 0b1010011
                    [] family = 87 -> "scas"   \* 0b1010111
                    [] family = 86 -> "lods"   \* 0b1010110
                    [] family = 85 -> "stos"   \* 0b1010101
                    [] OTHER -> ""
  IN  IF ~nx.ok THEN "rep"
      ELSE IF mnemonic = "" THEN "rep"
      ELSE IF mnemonic = "cmps" \/ mnemonic = "scas"
        THEN (IF loop = LoopWhileZero THEN "repz" ELSE "repnz")
      ELSE "rep"

\* segmentPrefix: the segment register named by bits 4..3 of the override
\* byte 001__110.
segmentPrefix(operation) == SegReg(Shr(operation, 3) % 4)

---------------------------------------------------------------------------
\* The builders, by the Go function the dispatch table calls.

\* Data transfer (mov, push, pop, xchg, in, out, xlat, lea, lds, les, flags).
BuildDataTransfer(fn, operation, p, seg, lbl) ==
  CASE fn = "moveRegMemToReg" ->
         binaryRegOrMem("mov", "Register/memory to/from register",
                        Bit(operation, 0) = WordOperation, Bit(operation, 1),
                        p, seg, lbl)
    [] fn = "moveImmediateToRegOrMem" ->
         buildImmediateWithRegOrMemInstruction("mov", 0,
           "immediate to register/memory", operation, p, seg, lbl)
    [] fn = "moveImmediateToReg" -> moveImmediateToReg(operation, p, lbl)
    [] fn = "moveMemoryToAccumulator" -> moveMemoryToAccumulator(operation, p, lbl)
    [] fn = "moveAccumulatorToMemory" -> moveAccumulatorToMemory(operation, p, lbl)
    [] fn = "pushRegOrMem" ->
         wordRegOrMem("push word ", 6, "PUSH: register/memory",
           "expected to get an operand for the 'PUSH: register/memory' instruction",
           "expected the reg field to be 000 for the 'PUSH: register/memory' instruction",
           p, seg, lbl)
    [] fn = "pushReg" -> regInOpcode("push ", operation, p, lbl)
    [] fn = "pushSegmentReg" -> segmentRegInOpcode("push ", operation, p, lbl)
    [] fn = "popRegOrMem" ->
         wordRegOrMem("pop word ", 0, "POP: register/memory",
           "expected to get an operand for the 'POP: register/memory' instruction",
           "expected the reg field to be 000 for the 'POP: register/memory' instruction",
           p, seg, lbl)
    [] fn = "popReg" -> regInOpcode("pop ", operation, p, lbl)
    [] fn = "popSegmentReg" -> segmentRegInOpcode("pop ", operation, p, lbl)
    [] fn = "exchangeRegOrMemWithReg" ->
         binaryRegOrMem("xchg", "XCHG: Register/memory with register",
                        Bit(operation, 0) = WordOperation, RegIsSource,
                        p, seg, lbl)
    [] fn = "exchangeRegWithAccumulator" ->
         regInOpcode("xchg ax, ", operation, p, lbl)
    [] fn = "inputFromFixedPort" -> inputFromFixedPort(operation, p, lbl)
    [] fn = "inputFromVariablePort" ->
         fixedText("in " \o accumulator(Bit(operation, 0) = WordOperation)
                     \o ", dx\n", p, lbl)
    [] fn = "outputToFixedPort" -> outputToFixedPort(operation, p, lbl)
    [] fn = "outputToVariablePort" ->
         fixedText("out dx, " \o accumulator(Bit(operation, 0) = WordOperation)
                     \o "\n", p, lbl)
    [] fn = "xlat" -> fixedText("xlat\n", p, lbl)
    [] fn = "lea" -> binaryRegOrMem("lea", "LEA", TRUE, RegIsDestination, p, seg, lbl)
    [] fn = "lds" -> binaryRegOrMem("lds", "LDS", TRUE, RegIsDestination, p, seg, lbl)
    [] fn = "les" -> binaryRegOrMem("les", "LES", TRUE, RegIsDestination, p, seg, lbl)
    [] fn = "lahf" -> fixedText("lahf\n", p, lbl)
    [] fn = "sahf" -> fixedText("sahf\n", p, lbl)
    [] fn = "pushf" -> fixedText("pushf\n", p, lbl)
    [] fn = "popf" -> fixedText("popf\n", p, lbl)

DataTransferBuilders ==
  {"moveRegMemToReg", "moveImmediateToRegOrMem", "moveImmediateToReg",
   "moveMemoryToAccumulator", "moveAccumulatorToMemory", "pushRegOrMem",
   "pushReg", "pushSegmentReg", "popRegOrMem", "popReg", "popSegmentReg",
   "exchangeRegOrMemWithReg", "exchangeRegWithAccumulator",
   "inputFromFixedPort", "inputFromVariablePort", "outputToFixedPort",
   "outputToVariablePort", "xlat", "lea", "lds", "les", "lahf", "sahf",
   "pushf", "popf"}

\* Arithmetic.
BuildArithmetic(fn, operation, p, seg, lbl) ==
  CASE fn = "addRegOrMemToReg" ->
         regOrMemWithReg("add", "ADD: Reg/memory with register to either",
                         operation, p, seg, lbl)
    [] fn = "addImmediateToRegOrMem" ->
         buildImmediateWithRegOrMemArithmeticInstruction("add", 0,
           "ADD: immediate to register/memory", operation, p, seg, lbl)
    [] fn = "addImmediateToAccumulator" ->
         immediateWithAccumulator("add", "ADD: immediate to accumulator",
                                  operation, p, lbl)
    [] fn = "adcRegOrMemToReg" ->
         regOrMemWithReg("adc", "ADC: Reg/memory with register to either",
                         operation, p, seg, lbl)
    [] fn = "adcImmediateToRegOrMem" ->
         buildImmediateWithRegOrMemArithmeticInstruction("adc", 2,
           "ADC: immediate to register/memory", operation, p, seg, lbl)
    [] fn = "adcImmediateToAccumulator" ->
         immediateWithAccumulator("adc", "ADC: immediate to accumulator",
                                  operation, p, lbl)
    [] fn = "incRegOrMem" ->
         mulOrDiv("inc", 0, "INC: register/memory", operation, p, seg, lbl)
    [] fn = "incReg" -> regInOpcode("inc ", operation, p, lbl)
    [] fn = "aaa" -> fixedText("aaa\n", p, lbl)
    [] fn = "daa" -> fixedText("daa\n", p, lbl)
    [] fn = "subRegOrMemFromReg" ->
         regOrMemWithReg("sub", "SUB: Reg/memory and register to either",
                         operation, p, seg, lbl)
    [] fn = "subImmediateFromRegOrMem" ->
         buildImmediateWithRegOrMemArithmeticInstruction("sub", 5,
           "SUB: immediate from register/memory", operation, p, seg, lbl)
    [] fn = "subImmediateFromAccumulator" ->
         immediateWithAccumulator("sub", "SUB: immediate from accumulator",
                                  operation, p, lbl)
    [] fn = "sbbRegOrMemFromReg" ->
         regOrMemWithReg("sbb", "SBB: Reg/memory and register to either",
                         operation, p, seg, lbl)
    [] fn = "sbbImmediateFromRegOrMem" ->
         buildImmediateWithRegOrMemArithmeticInstruction("sbb", 3,
           "SBB: immediate from register/memory", operation, p, seg, lbl)
    [] fn = "sbbImmediateFromAccumulator" ->
         immediateWithAccumulator("sbb", "SBB: immediate from accumulator",
                                  operation, p, lbl)
    [] fn = "decRegOrMem" ->
         mulOrDiv("dec", 1, "DEC: register/memory", operation, p, seg, lbl)
    [] fn = "decReg" -> regInOpcode("dec ", operation, p, lbl)
    [] fn = "neg" -> mulOrDiv("neg", 3, "NEG: Change sign", operation, p, seg, lbl)
    [] fn = "cmpRegOrMemWithReg" ->
         regOrMemWithReg("cmp", "CMP: Reg/memory and register",
                         operation, p, seg, lbl)
    [] fn = "cmpImmediateWithRegOrMem" ->
         buildImmediateWithRegOrMemArithmeticInstruction("cmp", 7,
           "CMP: immediate with register/memory", operation, p, seg, lbl)
    [] fn = "cmpImmediateWithAccumulator" ->
         immediateWithAccumulator("cmp", "CMP: immediate with accumulator",
                                  operation, p, lbl)
    [] fn = "aas" -> fixedText("aas\n", p, lbl)
    [] fn = "das" -> fixedText("das\n", p, lbl)
    [] fn = "mul" ->
         mulOrDiv("mul", 4, "MUL: Unsigned multiplication", operation, p, seg, lbl)
    [] fn = "imul" ->
         mulOrDiv("imul", 5, "IMUL: Signed multiplication", operation, p, seg, lbl)
    [] fn = "aam" -> asciiAdjust("aam", "AAM", p, lbl)
    [] fn = "div" ->
         mulOrDiv("div", 6, "DIV: Unsigned division", operation, p, seg, lbl)
    [] fn = "idiv" ->
         mulOrDiv("idiv", 7, "IDIV: Signed division", operation, p, seg, lbl)
    [] fn = "aad" -> asciiAdjust("aad", "AAD", p, lbl)
    [] fn = "cbw" -> fixedText("cbw\n", p, lbl)
    [] fn = "cwd" -> fixedText("cwd\n", p, lbl)

ArithmeticBuilders ==
  {"addRegOrMemToReg", "addImmediateToRegOrMem", "addImmediateToAccumulator",
   "adcRegOrMemToReg", "adcImmediateToRegOrMem", "adcImmediateToAccumulator",
   "incRegOrMem", "incReg", "aaa", "daa", "subRegOrMemFromReg",
   "subImmediateFromRegOrMem", "subImmediateFromAccumulator",
   "sbbRegOrMemFromReg", "sbbImmediateFromRegOrMem",
   "sbbImmediateFromAccumulator", "decRegOrMem", "decReg", "neg",
   "cmpRegOrMemWithReg", "cmpImmediateWithRegOrMem",
   "cmpImmediateWithAccumulator", "aas", "das", "mul", "imul", "aam", "div",
   "idiv", "aad", "cbw", "cwd"}

\* Logic.
BuildLogic(fn, operation, p, seg, lbl) ==
  CASE fn = "not" -> mulOrDiv("not", 2, "NOT: Invert", operation, p, seg, lbl)
    [] fn = "shl" ->
         bitShift("shl", 4, "SHL/SAL: Shift logical/arithmetic left",
                  operation, p, seg, lbl)
    [] fn = "shr" ->
         bitShift("shr", 5, "SHR: Shift logical right", operation, p, seg, lbl)
    [] fn = "sar" ->
         bitShift("sar", 7, "SAR: Shift arithmetic right", operation, p, seg, lbl)
    [] fn = "rol" -> bitShift("rol", 0, "ROL: Rotate left", operation, p, seg, lbl)
    [] fn = "ror" -> bitShift("ror", 1, "ROR: Rotate right", operation, p, seg, lbl)
    [] fn = "rcl" ->
         bitShift("rcl", 2, "RCL: Rotate through carry flag left",
                  operation, p, seg, lbl)
    [] fn = "rcr" ->
         bitShift("rcr", 3, "RCR: Rotate through carry flag right",
                  operation, p, seg, lbl)
    [] fn = "andRegOrMemWithReg" ->
         regOrMemWithReg("and", "AND: Reg/memory with register to either",
                         operation, p, seg, lbl)
    [] fn = "andImmediateWithRegOrMem" ->
         buildImmediateWithRegOrMemInstruction("and", 4,
           "AND: Immediate with register/memory", operation, p, seg, lbl)
    [] fn = "andImmediateWithAccumulator" ->
         immediateWithAccumulator("and", "AND: immediate with accumulator",
                                  operation, p, lbl)
    [] fn = "testRegOrMemWithReg" ->
         regOrMemWithReg("test", "TEST: Reg/memory with register to either",
                         operation, p, seg, lbl)
    [] fn = "testImmediateWithRegOrMem" ->
         buildImmediateWithRegOrMemInstruction("test", 0,
           "TEST: Immediate with register/memory", operation, p, seg, lbl)
    [] fn = "testImmediateWithAccumulator" ->
         immediateWithAccumulator("test", "TEST: immediate with accumulator",
                                  operation, p, lbl)
    [] fn = "orRegOrMemWithReg" ->
         regOrMemWithReg("or", "OR: Reg/memory with register to either",
                         operation, p, seg, lbl)
    [] fn = "orImmediateWithRegOrMem" ->
         buildImmediateWithRegOrMemInstruction("or", 1,
           "OR: Immediate with register/memory", operation, p, seg, lbl)
    [] fn = "orImmediateWithAccumulator" ->
         immediateWithAccumulator("or", "OR: immediate with accumulator",
                                  operation, p, lbl)
    [] fn = "xorRegOrMemWithReg" ->
         regOrMemWithReg("xor", "XOR: Reg/memory with register to either",
                         operation, p, seg, lbl)
    [] fn = "xorImmediateWithRegOrMem" ->
         buildImmediateWithRegOrMemInstruction("xor", 6,
           "XOR: Immediate with register/memory", operation, p, seg, lbl)
    [] fn = "xorImmediateWithAccumulator" ->
         immediateWithAccumulator("xor", "XOR: immediate with accumulator",
                                  operation, p, lbl)

LogicBuilders ==
  {"not", "shl", "shr", "sar", "rol", "ror", "rcl", "rcr",
   "andRegOrMemWithReg", "andImmediateWithRegOrMem",
   "andImmediateWithAccumulator", "testRegOrMemWithReg",
   "testImmediateWithRegOrMem", "testImmediateWithAccumulator",
   "orRegOrMemWithReg", "orImmediateWithRegOrMem",
   "orImmediateWithAccumulator", "xorRegOrMemWithReg",
   "xorImmediateWithRegOrMem", "xorImmediateWithAccumulator"}

\* String manipulation.
BuildString(fn, operation, p, lbl) ==
  CASE fn = "movs" -> stringInstruction("movs", operation, p, lbl)
    [] fn = "cmps" -> stringInstruction("cmps", operation, p, lbl)
    [] fn = "scas" -> stringInstruction("scas", operation, p, lbl)
    [] fn = "lods" -> stringInstruction("lods", operation, p, lbl)
    [] fn = "stos" -> stringInstruction("stos", operation, p, lbl)

StringBuilders == {"movs", "cmps", "scas", "lods", "stos"}

\* Control transfer.
BuildControlTransfer(fn, operation, p, seg, lbl) ==
  CASE fn = "callDirectWithinSegment" ->
         directWithinSegment("call", "CALL: Direct within segment", p, lbl)
    [] fn = "callIndirectWithinSegment" ->
         wordRegOrMem("call ", 2, "CALL: Indirect within segment",
           "expected to get an operand in 'CALL: Indirect within segment'",
           "expected to get a register value of 010 in 'CALL: Indirect within segment'",
           p, seg, lbl)
    [] fn = "callDirectIntersegment" ->
         directIntersegment("call", "CALL: Direct intersegment", p, lbl)
    [] fn = "callIndirectIntersegment" ->
         wordRegOrMem("call far ", 3, "CALL: Indirect intersegment",
           "expected to get an operand in 'CALL: Indirect intersegment'",
           "expected to get a register value of 011 in 'CALL: Indirect intersegment'",
           p, seg, lbl)
    [] fn = "jumpDirectWithinSegment" ->
         directWithinSegment("jmp", "JMP: Direct within segment", p, lbl)
    [] fn = "jumpDirectWithinSegmentShort" ->
         jumpDirectWithinSegmentShort(p, lbl)
    [] fn = "jumpIndirectWithinSegment" ->
         wordRegOrMem("jmp ", 4, "JMP: Indirect within segment",
           "expected to get an operand in 'JMP: Indirect within segment'",
           "expected to get a register value of 100 in 'JMP: Indirect within segment'",
           p, seg, lbl)
    [] fn = "jumpDirectIntersegment" ->
         directIntersegment("jmp", "JMP: Direct intersegment", p, lbl)
    [] fn = "jumpIndirectIntersegment" ->
         wordRegOrMem("jmp far ", 5, "JMP: Indirect intersegment",
           "expected to get an operand in 'JMP: Indirect intersegment'",
           "expected to get a register value of 101 in 'JMP: Indirect intersegment'",
           p, seg, lbl)
    [] fn = "jumpConditionally" -> jumpConditionally(operation, p, lbl)

ControlTransferBuilders ==
  {"callDirectWithinSegment", "callIndirectWithinSegment",
   "callDirectIntersegment", "callIndirectIntersegment",
   "jumpDirectWithinSegment", "jumpDirectWithinSegmentShort",
   "jumpIndirectWithinSegment", "jumpDirectIntersegment",
   "jumpIndirectIntersegment", "jumpConditionally"}

\* Interrupts.
BuildInterrupt(fn, p, lbl) ==
  CASE fn = "interruptWithType" -> interruptWithType(p, lbl)
    [] fn = "interruptType3" -> fixedText("int3\n", p, lbl)
    [] fn = "interruptOnOverflow" -> fixedText("into\n", p, lbl)
    [] fn = "interruptReturn" -> fixedText("iret\n", p, lbl)

InterruptBuilders ==
  {"interruptWithType", "interruptType3", "interruptOnOverflow",
   "interruptReturn"}

\* Processor control: each builder returns its own name and a newline.
BuildProcessorControl(fn, p, lbl) == fixedText(fn \o "\n", p, lbl)

\* The call `instruction, err = <fn>(operation, d)` of a dispatch case.
Build(fn, operation, p, seg, lbl) ==
  CASE fn \in DataTransferBuilders -> BuildDataTransfer(fn, operation, p, seg, lbl)
    [] fn \in ArithmeticBuilders -> BuildArithmetic(fn, operation, p, seg, lbl)
    [] fn \in LogicBuilders -> BuildLogic(fn, operation, p, seg, lbl)
    [] fn \in StringBuilders -> BuildString(fn, operation, p, lbl)
    [] fn \in ControlTransferBuilders ->
         BuildControlTransfer(fn, operation, p, seg, lbl)
    [] fn \in InterruptBuilders -> BuildInterrupt(fn, p, lbl)
    [] OTHER -> BuildProcessorControl(fn, p, lbl)

---------------------------------------------------------------------------
\* Decoder.Decode: one iteration of its for loop.

\* fmt's %b of a non-negative int
RECURSIVE Bin(_)
Bin(n) == IF n < 2 THEN ToString(n) ELSE Bin(n \div 2) \o ToString(n % 2)

\* The cases of the dispatch switch `table` that match `operation` with the
\* cursor at p.
matchingCases(table, p, operation) ==
  {i \in DOMAIN table : matchPattern(p, operation, table[i].pattern)}

\* Mutation of firstCase that takes the last of the matching cases.
LastCase(cases) ==
  IF cases = {} THEN 0 ELSE CHOOSE i \in cases : \A j \in cases : i >= j

\* The first of the cases: a switch takes its cases in declaration order.
\* 0 when there is none and the switch reaches `default`.
firstCase(cases) ==
  IF cases = {} THEN 0 ELSE CHOOSE i \in cases : \A j \in cases : i <= j

\* The case of Decode's dispatch switch taken for `operation`, 0 for `default`.
FirstMatch(p, operation) ==
  firstCase(matchingCases(InstructionTable, p, operation))

NoNode == [value |-> "", pos |-> -1]

\* What an iteration does to the Decoder and how it leaves the loop:
\* kind is "break" (end of input), "append" (the loop continues), "error"
\* (return nil, err) or "panic".
Outcome(kind, p, seg, lbl, append, node, e) ==
  [kind |-> kind, pos |-> p, segment |-> seg, labels |-> lbl,
   append |-> append, node |-> node, err |-> e]

\* Mutation of completeInstruction that appends whatever the builder returned
\* even when it failed.
CompleteInstructionKeepingPartial(prefix, instructionPointer, r, seg) ==
  Outcome(IF r.err # "" THEN "error" ELSE "append", r.pos, seg, r.labels, TRUE,
          [value |-> prefix \o r.text, pos |-> instructionPointer], r.err)

\* After the dispatch switch: `if err != nil { return nil, err }`, the prefix
\* is prepended and the instruction appended at instructionPointer.
completeInstruction(prefix, instructionPointer, r, seg) ==
  IF r.err # ""
    THEN Outcome("error", r.pos, seg, r.labels, FALSE, NoNode, r.err)
    ELSE Outcome("append", r.pos, seg, r.labels, TRUE,
                 [value |-> prefix \o r.text, pos |-> instructionPointer], "")

\* Mutation of unexpectedOperation that emits a placeholder line for the
\* unmatched byte.
UnexpectedOperationWithPlaceholder(operation, p, seg, lbl) ==
  Outcome("panic", p, seg, lbl, TRUE,
          [value |-> "db " \o ToString(operation) \o "\n", pos |-> p],
          "AssertionError: unexpected operation " \o Bin(operation))

\* The default case of the dispatch switch.
unexpectedOperation(operation, p, seg, lbl) ==
  Outcome("panic", p, seg, lbl, FALSE, NoNode,
          "AssertionError: unexpected operation " \o Bin(operation))

\* The RET cases: panic("TODO: " + name).
todoOperation(name, p, seg, lbl) ==
  Outcome("panic", p, seg, lbl, FALSE, NoNode, "TODO: " \o name)

\* The prefix switch: "lock ", "<rep name> " or "".
prefixOf(operation, p) ==
  IF matchPattern(p, operation, LockPattern) THEN "lock "
  ELSE IF matchPattern(p, operation, RepPattern)
    THEN repeatPrefix(operation, p) \o " "
  ELSE ""

NoLast ==
  [kind |-> "none", start |-> -1, ip |-> -1, prefix |-> "", op |-> -1,
   opAt |-> -1, entry |-> 0, fn |-> "", obs |-> NoObs]

\* The observation of an iteration that started at p0.
Seen(kind, p0, ip, prefix, op, opAt, entry, fn, obs) ==
  [kind |-> kind, start |-> p0, ip |-> ip, prefix |-> prefix, op |-> op,
   opAt |-> opAt, entry |-> entry, fn |-> fn, obs |-> obs]

\* Mutation of the break in which input ending after a prefix is reported
\* as an error.
EndOfInputRejectingPrefix(p0, ip, prefix, p, seg, lbl) ==
  IF prefix = ""
    THEN [out |-> Outcome("break", p, seg, lbl, FALSE, NoNode, ""),
          seen |-> Seen("break", p0, ip, prefix, -1, -1, 0, "", NoObs)]
    ELSE [out |-> Outcome("error", p, seg, lbl, FALSE, NoNode,
                          "unexpected end of input after a prefix"),
          seen |-> Seen("error", p0, ip, prefix, -1, -1, 0, "", NoObs)]

\* `break`: the input ended where a byte of the instruction was expected.
endOfInput(p0, ip, prefix, p, seg, lbl) ==
  [out |-> Outcome("break", p, seg, lbl, FALSE, NoNode, ""),
   seen |-> Seen("break", p0, ip, prefix, -1, -1, 0, "", NoObs)]

\* The builder of the case taken has returned r.
built(p0, ip, prefix, operation, opAt, entry, fn, seg, r) ==
  CHOOSE x \in {[out |-> o,
                 seen |-> Seen(o.kind, p0, ip, prefix, operation, opAt, entry,
                               fn, b.obs)] :
                  b \in {r},
                  o \in {completeInstruction(prefix, ip, r, seg)}} : TRUE

\* An iteration that ended in a panic with outcome o.
panicked(p0, ip, prefix, operation, opAt, entry, fn, o) ==
  [out |-> o,
   seen |-> Seen(o.kind, p0, ip, prefix, operation, opAt, entry, fn, NoObs)]

\* The dispatch switch on `operation` with the cursor at p: row is the table
\* row of the case taken (entry = 0: none).
dispatch(p0, ip, prefix, seg, lbl, operation, p, entry, row) ==
  IF entry = 0
    THEN panicked(p0, ip, prefix, operation, p - 1, 0, "",
                  unexpectedOperation(operation, p, seg, lbl))
  ELSE IF row.fn = "panic"
    THEN panicked(p0, ip, prefix, operation, p - 1, entry, row.fn,
                  todoOperation(row.name, p, seg, lbl))
  ELSE built(p0, ip, prefix, operation, p - 1, entry, row.fn, seg,
             Build(row.fn, operation, p, seg, lbl))

\* The table row of a case; row 1 stands in for `default`, where no row is
\* read.
tableRow(table, entry) == table[IF entry = 0 THEN 1 ELSE entry]

\* The switch is entered with the case FirstMatch selects.  The locals of
\* Decode hold values by the time the switch is reached: they are bound
\* here once, as values, and handed on.
switchOn(p0, ip, prefix, seg, lbl, operation, p, entry) ==
  CHOOSE r \in {dispatch(p0, ip, v.prefix, v.segment, lbl, v.operation,
                         v.pos, v.entry, tableRow(InstructionTable, v.entry)) :
                  v \in {[prefix |-> prefix, segment |-> seg,
                          operation |-> operation, pos |-> p,
                          entry |-> entry]}} : TRUE

\* Mutation of the dispatch in which matching consumes the byte a second
\* template looks at: the builder starts one byte further on.
AfterOverrideConsumingLookahead(p0, ip, prefix, seg, lbl, third) ==
  IF ~third.ok THEN endOfInput(p0, ip, prefix, third.pos, seg, lbl)
  ELSE switchOn(p0, ip, prefix, seg, lbl, third.b, next(third.pos).pos,
                FirstMatch(third.pos, third.b))

\* After the segment-override test: `third` is the read of the opcode (the
\* byte after an override, or the byte tested), seg the value d.segment was
\* set to.
afterOverride(p0, ip, prefix, seg, lbl, third) ==
  CHOOSE r \in {IF ~t.ok THEN endOfInput(p0, ip, prefix, t.pos, seg, lbl)
                ELSE switchOn(p0, ip, prefix, seg, lbl, t.b, t.pos,
                              FirstMatch(t.pos, t.b)) : t \in {third}} : TRUE

\* Mutation of the override test that leaves d.segment as it was when no
\* override byte is seen.
AfterPrefixKeepingSegment(p0, ip, prefix, seg0, lbl, second) ==
  IF ~second.ok THEN endOfInput(p0, ip, prefix, second.pos, seg0, lbl)
  ELSE afterOverride(p0, ip, prefix,
         IF matchPattern(second.pos, second.b, SegmentPattern)
           THEN segmentPrefix(second.b) ELSE seg0,
         lbl,
         IF matchPattern(second.pos, second.b, SegmentPattern)
           THEN next(second.pos) ELSE second)

\* After the prefix switch: `second` is the read of the byte that follows
\* a prefix (or the first byte again when there was none).  The override
\* test sets d.segment and reads one more byte, or clears d.segment.
afterPrefix(p0, ip, prefix, seg0, lbl, second) ==
  IF ~second.ok THEN endOfInput(p0, ip, prefix, second.pos, seg0, lbl)
  ELSE afterOverride(p0, ip, prefix,
         IF matchPattern(second.pos, second.b, SegmentPattern)
           THEN segmentPrefix(second.b) ELSE "",
         lbl,
         IF matchPattern(second.pos, second.b, SegmentPattern)
           THEN next(second.pos) ELSE second)

\* After the first d.next(): instructionPointer is d.pos, then the prefix
\* switch; a prefix is followed by another d.next().
afterFirst(p0, seg0, lbl, first, prefix) ==
  afterPrefix(p0, first.pos, prefix, seg0, lbl,
              IF prefix # "" THEN next(first.pos) ELSE first)

\* The first byte of an iteration.
opening(p0, seg0, lbl, first) ==
  IF ~first.ok THEN endOfInput(p0, -1, "", first.pos, seg0, lbl)
  ELSE afterFirst(p0, seg0, lbl, first, prefixOf(first.b, first.pos))

\* One iteration from cursor p0 with d.segment = seg0 and d.labels = lbl0:
\* its outcome and the observation of what it dispatched.
Iteration(p0, seg0, lbl0) == opening(p0, seg0, lbl0, next(p0))

---------------------------------------------------------------------------
\* The renderer.

\* Mutation of computeCacheKey that leaves the instruction count out.
ComputeCacheKeyWithoutNodes(ns, lbl) ==
  "l=" \o ToString(Cardinality(DOMAIN lbl))

\* Decoder.computeCacheKey
computeCacheKey(ns, lbl) ==
  "n=" \o ToString(Len(ns)) \o ";l=" \o ToString(Cardinality(DOMAIN lbl))

\* The loop of GetDecoded: each node's value, preceded by the declaration of
\* the label recorded at node.pos - 1 when there is one.
RECURSIVE Render(_, _)
Render(ns, lbl) ==
  IF ns = << >> THEN << >>
  ELSE LET node == Head(ns)
       IN  (IF (node.pos - 1) \in DOMAIN lbl
              THEN << lbl[node.pos - 1] \o ":\n", node.value >>
              ELSE << node.value >>) \o Render(Tail(ns), lbl)

\* Decoder.GetDecoded on a Decoder with the given fields: the returned
\* bytes and the cache fields it leaves.
GetDecoded(ns, lbl, key, dec) ==
  LET k == computeCacheKey(ns, lbl)
  IN  IF k = key
        THEN [result |-> dec, cacheKey |-> key, decoded |-> dec]
        ELSE [result |-> Render(ns, lbl), cacheKey |-> k,
              decoded |-> Render(ns, lbl)]

\* make(map[int]string)
EmptyLabels == [x \in {} |-> ""]

---------------------------------------------------------------------------
\* Actions.

\* No command-line program: the Decoder is driven as a library.
NoCli ==
  [stage |-> "none", input |-> "none", stdout |-> << >>, stderr |-> << >>,
   exit |-> -1]

\* No second Decoder.
NoTwin ==
  [pos |-> 0, segment |-> "", nodes |-> << >>, labels |-> EmptyLabels,
   cacheKey |-> "", decoded |-> << >>, pc |-> "none", err |-> "",
   ret |-> << >>]

\* No cursor operation called on its own.
NoProbe ==
  [call |-> "none", at |-> -1, offset |-> 0, candidate |-> 0,
   pattern |-> << >>, b |-> 0, ok |-> FALSE]

\* NewDecoder(buffer), before any call.
NewDecoder(buffer) ==
  /\ bytes = buffer
  /\ pos = 0
  /\ segment = ""
  /\ nodes = << >>
  /\ labels = EmptyLabels
  /\ cacheKey = ""
  /\ decoded = << >>
  /\ pc = "idle"
  /\ err = ""
  /\ ret = << >>
  /\ calls = 0
  /\ got = << >>
  /\ last = NoLast

\* Mutation of the entry of Decode in which a call starts from the state
\* NewDecoder leaves: no instructions, no labels, an empty cache.
DecodeEnterOnFreshDecoder ==
  /\ pc # "loop"
  /\ calls < MaxCalls
  /\ pos' = 0
  /\ pc' = "loop"
  /\ calls' = calls + 1
  /\ err' = ""
  /\ last' = NoLast
  /\ nodes' = << >>
  /\ labels' = EmptyLabels
  /\ cacheKey' = ""
  /\ decoded' = << >>
  /\ UNCHANGED <<bytes, segment, ret, got, cli, twin, probe>>

\* The caller enters Decode: d.pos = 0, then the for loop.
DecodeEnter ==
  /\ pc # "loop"
  /\ calls < MaxCalls
  /\ pos' = 0
  /\ pc' = "loop"
  /\ calls' = calls + 1
  /\ err' = ""
  /\ last' = NoLast
  /\ UNCHANGED <<bytes, segment, nodes, labels, cacheKey, decoded, ret, got,
               cli, twin, probe>>

\* One iteration of Decode's loop; on break, the final `return
\* d.GetDecoded(), nil`.
DecodeStep ==
  /\ pc = "loop"
  /\ \E it \in {Iteration(pos, segment, labels)} :
       LET o == it.out
           ns == IF o.append THEN Append(nodes, o.node) ELSE nodes
           g == GetDecoded(ns, o.labels, cacheKey, decoded)
       IN  /\ pos' = o.pos
           /\ segment' = o.segment
           /\ labels' = o.labels
           /\ nodes' = ns
           /\ err' = o.err
           /\ last' = it.seen
           /\ pc' = CASE o.kind = "break" -> "done"
                      [] o.kind = "append" -> "loop"
                      [] o.kind = "error" -> "error"
                      [] o.kind = "panic" -> "panic"
           /\ cacheKey' = IF o.kind = "break" THEN g.cacheKey ELSE cacheKey
           /\ decoded' = IF o.kind = "break" THEN g.decoded ELSE decoded
           /\ ret' = CASE o.kind = "break" -> g.result
                       [] o.kind = "error" -> << >>
                       [] OTHER -> ret
  /\ UNCHANGED <<bytes, calls, got, cli, twin, probe>>

\* The caller calls GetDecoded between Decode calls (after a return, an
\* error, or a recovered panic).
GetDecodedCall ==
  /\ pc # "loop"
  /\ LET g == GetDecoded(nodes, labels, cacheKey, decoded)
     IN  /\ got' = g.result
         /\ cacheKey' = g.cacheKey
         /\ decoded' = g.decoded
  /\ UNCHANGED <<bytes, pos, segment, nodes, labels, pc, err, ret, calls, last,
               cli, twin, probe>>

Next == DecodeEnter \/ DecodeStep \/ GetDecodedCall


\* ---------------------------------------------------------------------
\* The command-line program (cmd/cli/main.go).  Output streams are
\* sequences of the chunks written, in order.
\* ---------------------------------------------------------------------
FileName == "listing"

CliInputs == {"noargs", "nofile", "unreadable", "file"}

\* printHead(filename)
printHead(filename) == "; " \o filename \o "\nbits 16\n\n"

\* exit(err): fmt.Println(err.Error()) writes to standard output, then
\* os.Exit(1).
exit(c, message) ==
  [c EXCEPT !.stage = "exited", !.stdout = Append(@, message \o "\n"),
            !.exit = 1]

\* main, lines 12-26: the argument and file checks, then NewDecoder.
MainOpen ==
  /\ cli.stage = "start"
  /\ cli' = CASE cli.input = "noargs" ->
                   exit(cli, "invalid number of arguments, expected at least one for the filename\n")
              [] cli.input = "nofile" ->
                   exit(cli, "The specified file " \o FileName \o " doesn't exist\n")
              [] cli.input = "unreadable" ->
                   exit(cli, "Failed to read the file " \o FileName \o ". Error = read error\n")
              [] OTHER -> [cli EXCEPT !.stage = "decoding"]
  /\ UNCHANGED <<bytes, pos, segment, nodes, labels, cacheKey, decoded, pc,
               err, ret, calls, got, last, twin, probe>>

\* main, line 40: the one call of d.Decode().
MainDecode ==
  /\ cli.stage = "decoding"
  /\ calls = 0
  /\ DecodeEnter

\* main, lines 30-37 and 41-52: what follows the return of d.Decode().
\* The `err` assigned at line 40 is the one declared at line 39 inside the
\* closure; line 46 tests the `err` of line 21, which is nil here.  A panic
\* is recovered, the partial text is printed, and the panic is raised again:
\* the runtime reports it on standard error and exits with status 2.
MainFinish ==
  /\ cli.stage = "decoding"
  /\ calls = 1
  /\ pc \in {"done", "error", "panic"}
  /\ \E g \in {GetDecoded(nodes, labels, cacheKey, decoded)} :
       IF pc = "panic"
       THEN /\ cli' = [cli EXCEPT
                 !.stage = "exited",
                 !.stdout = IF Len(g.result) > 0
                            THEN @ \o <<"(" \o FileName \o ") Partial decoded contents:\n">> \o g.result
                            ELSE @,
                 !.stderr = Append(@, "panic: panic occurred when processing " \o FileName \o "; error = " \o err),
                 !.exit = 2]
            /\ cacheKey' = g.cacheKey
            /\ decoded' = g.decoded
            /\ got' = g.result
       ELSE /\ cli' = [cli EXCEPT
                 !.stage = "exited",
                 !.stderr = IF pc = "error"
                            THEN Append(@, FileName \o " = " \o err)
                            ELSE @,
                 !.stdout = @ \o <<printHead(FileName)>> \o ret,
                 !.exit = 0]
            /\ UNCHANGED <<cacheKey, decoded, got>>
  /\ UNCHANGED <<bytes, pos, segment, nodes, labels, pc, err, ret, calls, last,
               twin, probe>>

NextCli == MainOpen \/ MainDecode \/ DecodeStep \/ MainFinish

\* ---------------------------------------------------------------------
\* A second Decoder, built by NewDecoder over the same buffer and run by
\* the same code; its fields are the record `twin`.
\* ---------------------------------------------------------------------
\* The second Decoder enters Decode, once.
TwinEnter ==
  /\ twin.pc = "idle"
  /\ twin' = [twin EXCEPT !.pos = 0, !.pc = "loop", !.err = ""]
  /\ UNCHANGED <<bytes, pos, segment, nodes, labels, cacheKey, decoded, pc,
               err, ret, calls, got, last, cli, probe>>

\* One iteration of the second Decoder's loop.
TwinStep ==
  /\ twin.pc = "loop"
  /\ \E it \in {Iteration(twin.pos, twin.segment, twin.labels)} :
       \E ns \in {IF it.out.append THEN Append(twin.nodes, it.out.node)
                                   ELSE twin.nodes} :
         \E g \in {GetDecoded(ns, it.out.labels, twin.cacheKey, twin.decoded)} :
           twin' = [pos |-> it.out.pos,
                     segment |-> it.out.segment,
                     nodes |-> ns,
                     labels |-> it.out.labels,
                     cacheKey |-> IF it.out.kind = "break" THEN g.cacheKey
                                                          ELSE twin.cacheKey,
                     decoded |-> IF it.out.kind = "break" THEN g.decoded
                                                         ELSE twin.decoded,
                     pc |-> CASE it.out.kind = "break" -> "done"
                              [] it.out.kind = "append" -> "loop"
                              [] it.out.kind = "error" -> "error"
                              [] it.out.kind = "panic" -> "panic",
                     err |-> it.out.err,
                     ret |-> CASE it.out.kind = "break" -> g.result
                               [] it.out.kind = "error" -> << >>
                               [] OTHER -> twin.ret]
  /\ UNCHANGED <<bytes, pos, segment, nodes, labels, cacheKey, decoded, pc,
               err, ret, calls, got, last, cli, probe>>

NextTwo == DecodeEnter \/ DecodeStep \/ TwinEnter \/ TwinStep

\* ---------------------------------------------------------------------
\* The cursor operations and the matcher called on their own, on a Decoder
\* that is not inside Decode's loop.
\* ---------------------------------------------------------------------
Probed(call, at, offset, candidate, pattern, b, ok) ==
  [call |-> call, at |-> at, offset |-> offset, candidate |-> candidate,
   pattern |-> pattern, b |-> b, ok |-> ok]

\* d.next()
CallNext ==
  /\ pc # "loop"
  /\ \E r \in {next(pos)} :
       /\ pos' = r.pos
       /\ probe' = Probed("next", pos, 0, 0, << >>, r.b, r.ok)
  /\ UNCHANGED <<bytes, segment, nodes, labels, cacheKey, decoded, pc, err,
               ret, calls, got, last, cli, twin>>

\* d.peekNext()
CallPeekNext ==
  /\ pc # "loop"
  /\ \E r \in {peekNext(pos)} :
       probe' = Probed("peekNext", pos, 0, 0, << >>, r.b, r.ok)
  /\ UNCHANGED <<bytes, pos, segment, nodes, labels, cacheKey, decoded, pc,
               err, ret, calls, got, last, cli, twin>>

\* d.peekForward(offset)
CallPeekForward ==
  /\ pc # "loop"
  /\ \E offset \in 1..MaxOffset :
       \E r \in {peekForward(pos, offset)} :
         probe' = Probed("peekForward", pos, offset, 0, << >>, r.b, r.ok)
  /\ UNCHANGED <<bytes, pos, segment, nodes, labels, cacheKey, decoded, pc,
               err, ret, calls, got, last, cli, twin>>

\* Templates for patterns: all wildcards, all zeros, and the two end bits
\* set with letters between them.
ProbeTemplates ==
  { <<"_","_","_","_","_","_","_","_">>,
    <<"0","0","0","0","0","0","0","0">>,
    <<"1","m","o","d","r","e","g","1">> }

ProbePatterns ==
  UNION {[1..n -> ProbeTemplates] : n \in 1..MaxTemplates}

\* Candidate and buffer bytes: 00000000, 10000001 and 11111111.
ProbeBytes == {0, 129, 255}

\* d.matchPattern(name, candidate, pattern)
CallMatchPattern ==
  /\ pc # "loop"
  /\ \E candidate \in ProbeBytes, pattern \in ProbePatterns :
       probe' = Probed("matchPattern", pos, 0, candidate, pattern, 0,
                       matchPattern(pos, candidate, pattern))
  /\ UNCHANGED <<bytes, pos, segment, nodes, labels, cacheKey, decoded, pc,
               err, ret, calls, got, last, cli, twin>>

NextCursor == DecodeEnter \/ DecodeStep \/ CallNext \/ CallPeekNext \/ CallPeekForward

NextMatcher == CallNext \/ CallPeekForward \/ CallMatchPattern
---------------------------------------------------------------------------
\* Specifications.  Each is the same Decoder over a family of input buffers.

RECURSIVE SeqsUpTo(_, _)
SeqsUpTo(S, n) ==
  IF n = 0 THEN {<< >>}
  ELSE LET shorter == SeqsUpTo(S, n - 1)
       IN  shorter \cup {Append(s, b) : s \in {t \in shorter : Len(t) = n - 1},
                                        b \in S}

\* General buffers: nop (144), mov ax, imm16 (184), mov reg, r/m (139),
\* mov ax, [addr] (161), an extension-group opcode or a MOD = 10 byte (128),
\* a byte no table entry matches (99) and the es override (38).
SampleBytes == {144, 184, 139, 161, 128, 99, 38}

Init == \E buffer \in SeqsUpTo(SampleBytes, MaxLen) : NewDecoder(buffer) /\ cli = NoCli /\ twin = NoTwin /\ probe = NoProbe

Spec == Init /\ [][Next]_vars

\* Branches: jz (116), jmp short (235), displacements -16, -2, +2, 0 (240,
\* 254, 2, 0; 240 is also the LOCK prefix) and nop (144).
JumpBytes == {116, 235, 240, 254, 2, 0, 144}

InitJumps == \E buffer \in SeqsUpTo(JumpBytes, MaxJumpLen) : NewDecoder(buffer) /\ cli = NoCli /\ twin = NoTwin /\ probe = NoProbe

SpecJumps == InitJumps /\ [][Next]_vars

\* Displacements: mov ax, [bx + si + d] (139) and neg word [bx + si + d]
\* (247 with REG = 011) with every 8-bit d and the 16-bit d whose low byte is
\* 0, 1 or 255.
DisplacementInputs ==
  {<<op, 64 + (IF op = 247 THEN 24 ELSE 0), d>> : op \in {139, 247}, d \in Byte}
  \cup {<<op, 128 + (IF op = 247 THEN 24 ELSE 0), lo, hi>> :
          op \in {139, 247}, lo \in {0, 1, 255}, hi \in Byte}

InitDisplacement == \E buffer \in DisplacementInputs : NewDecoder(buffer) /\ cli = NoCli /\ twin = NoTwin /\ probe = NoProbe

SpecDisplacement == InitDisplacement /\ [][Next]_vars

\* Opcodes whose second byte is a MOD/RM byte resolved to an effective
\* address, over both resolvers and every builder shape.
DirectOpcodes ==
  {1, 129, 131, 133, 135, 136, 139, 141, 143, 196, 199, 209, 246, 247, 254, 255}

\* Direct addresses: an optional es override, the opcode, MOD = 00 with
\* R/M = 110 under every REG, two address bytes, and zero or two more bytes.
DirectInputs ==
  {pre \o <<op, 8 * reg + 6, lo, hi>> \o tail :
     pre \in {<< >>, <<38>>}, op \in DirectOpcodes, reg \in 0..7,
     lo \in {52, 255}, hi \in {0, 18}, tail \in {<< >>, <<52, 18>>}}

InitDirect == \E buffer \in DirectInputs : NewDecoder(buffer) /\ cli = NoCli /\ twin = NoTwin /\ probe = NoProbe

SpecDirect == InitDirect /\ [][Next]_vars

ImmediateBytes == {0, 127, 128, 254, 255}

\* The 100000sw group: every s and w, a register or a memory destination,
\* the five arithmetic extensions, then two more bytes.
ImmediateInputs ==
  {<<op, 64 * mod + 8 * ext + rm, b1, b2>> :
     op \in 128..131, mod \in {0, 3}, ext \in {0, 2, 3, 5, 7}, rm \in {0, 3},
     b1 \in ImmediateBytes, b2 \in {0, 144, 255}}

InitImmediate == \E buffer \in ImmediateInputs : NewDecoder(buffer) /\ cli = NoCli /\ twin = NoTwin /\ probe = NoProbe

SpecImmediate == InitImmediate /\ [][Next]_vars

\* movs, cmps, stos, lods, scas of both widths.
StringOpcodes == {164, 165, 166, 167, 170, 171, 172, 173, 174, 175}

\* One or two units, each a REP byte (242, 243) before a string opcode or a
\* nop, or a bare string opcode.
RepUnits ==
  {<<pre, op>> : pre \in {242, 243}, op \in StringOpcodes \cup {144}}
  \cup {<<164>>, <<166>>}

RepInputs == RepUnits \cup {u \o v : u \in RepUnits, v \in RepUnits}

InitRep == \E buffer \in RepInputs : NewDecoder(buffer) /\ cli = NoCli /\ twin = NoTwin /\ probe = NoProbe

SpecRep == InitRep /\ [][Next]_vars


\* Command lines for the CLI: no file name, a name of no file, a file that
\* cannot be read, and files holding nop (144), mov ax, imm16 (184), je (116)
\* with its displacement (0), a byte no table entry matches (99) and ret
\* (195), whose table entry is not implemented.
CliBytes == {144, 184, 116, 0, 99, 195}

InitCli ==
  \E input \in CliInputs :
    \E buffer \in (IF input = "file" THEN SeqsUpTo(CliBytes, MaxLen) ELSE {<< >>}) :
      /\ NewDecoder(buffer)
      /\ cli = [stage |-> "start", input |-> input, stdout |-> << >>,
                stderr |-> << >>, exit |-> -1]
      /\ twin = NoTwin /\ probe = NoProbe

SpecCli == InitCli /\ [][NextCli]_vars

\* Two fresh Decoders over one buffer of jumps, the LOCK prefix, nop, a byte
\* no table entry matches (99) and ret (195), whose table entry is not
\* implemented.
TwoBytes == {116, 235, 254, 0, 144, 99, 195}

InitTwo ==
  \E buffer \in SeqsUpTo(TwoBytes, MaxLen) :
    /\ NewDecoder(buffer)
    /\ cli = NoCli
    /\ twin = [NoTwin EXCEPT !.pc = "idle"]
    /\ probe = NoProbe

SpecTwo == InitTwo /\ [][NextTwo]_vars

\* Every opcode byte, alone and followed by a byte with each REG field and
\* with MOD 00 or 11 (the fields the two-byte patterns test).
LookaheadBytes == {mod * 64 + reg * 8 : mod \in {0, 3}, reg \in 0..7}

DispatchInputs ==
  {<<op>> : op \in Byte} \cup {<<op, b>> : op \in Byte, b \in LookaheadBytes}

InitDispatch ==
  \E buffer \in DispatchInputs : NewDecoder(buffer) /\ cli = NoCli /\ twin = NoTwin /\ probe = NoProbe

SpecDispatch == InitDispatch /\ [][Next]_vars

\* Decode passes with the cursor operations called between them.
SpecCursor == Init /\ [][NextCursor]_vars

\* The matcher and peekForward at every cursor position of buffers of
\* ProbeBytes.
InitMatcher ==
  \E buffer \in SeqsUpTo(ProbeBytes, MaxLen) :
    NewDecoder(buffer) /\ cli = NoCli /\ twin = NoTwin /\ probe = NoProbe

SpecMatcher == InitMatcher /\ [][NextMatcher]_vars

\* mov register/memory to/from register with both D and W values, every
\* MOD, three REG and three R/M values (110 among them), followed by the
\* displacement bytes 52, 18.
DirectionInputs ==
  {<<op, mod * 64 + reg * 8 + rm, 52, 18>> :
     op \in 136..139, mod \in 0..3, reg \in {0, 3, 7}, rm \in {0, 3, 6}}

InitDirection ==
  \E buffer \in DirectionInputs :
    NewDecoder(buffer) /\ cli = NoCli /\ twin = NoTwin /\ probe = NoProbe

SpecDirection == InitDirection /\ [][Next]_vars

\* Near call (232) and near jmp (233) with displacement words of both signs,
\* alone and after a nop.
NearInputs ==
  {pre \o <<op, lo, hi>> :
     pre \in {<< >>, <<144>>}, op \in {232, 233},
     lo \in {0, 3, 254, 255}, hi \in {0, 127, 128, 255}}

InitNear ==
  \E buffer \in NearInputs :
    NewDecoder(buffer) /\ cli = NoCli /\ twin = NoTwin /\ probe = NoProbe

SpecNear == InitNear /\ [][Next]_vars

\* Every conditional jump and loop (112..127, 224..227) and the short jmp
\* (235), with forward, backward and zero displacements, alone, after a nop
\* and followed by one or two nops.
ShortBranchOpcodes == (112..127) \cup (224..227) \cup {235}

BranchInputs ==
  {pre \o <<op, disp>> \o post :
     pre \in {<< >>, <<144>>}, op \in ShortBranchOpcodes,
     disp \in {0, 1, 2, 127, 128, 253, 254},
     post \in {<< >>, <<144>>, <<144, 144>>}}

InitBranch ==
  \E buffer \in BranchInputs :
    NewDecoder(buffer) /\ cli = NoCli /\ twin = NoTwin /\ probe = NoProbe

SpecBranch == InitBranch /\ [][Next]_vars

\* mov register/memory to/from register (137, 139) and neg (247 with
\* REG = 011) with every MOD and R/M, followed by 0, 1 or 2 further bytes.
ResolverOpcodes == {137, 139, 247}

ResolverInputs ==
  {<<op, mod * 64 + 24 + rm>> \o tail :
     op \in ResolverOpcodes, mod \in 0..3, rm \in 0..7,
     tail \in {<< >>, <<52>>, <<52, 18>>}}

InitResolver ==
  \E buffer \in ResolverInputs :
    NewDecoder(buffer) /\ cli = NoCli /\ twin = NoTwin /\ probe = NoProbe

SpecResolver == InitResolver /\ [][Next]_vars

\* Up to three units in a row: an es or cs override (38, 46), LOCK (240),
\* REP (243), mov ax, [bx] (139 7), mov ax, [4660] (161 52 18) and nop (144).
SegmentUnits ==
  {<< >>, <<38>>, <<46>>, <<240>>, <<243>>, <<139, 7>>, <<161, 52, 18>>, <<144>>}

SegmentInputs == {u \o v \o w : u \in SegmentUnits, v \in SegmentUnits, w \in SegmentUnits}

InitSegment ==
  \E buffer \in SegmentInputs :
    NewDecoder(buffer) /\ cli = NoCli /\ twin = NoTwin /\ probe = NoProbe

SpecSegment == InitSegment /\ [][Next]_vars

\* A caller that only calls Decode.  A running Decode call keeps executing
\* its loop: Decode is sequential code with no blocking call, so an enabled
\* iteration is eventually taken.
TerminationBytes == {144, 184, 99, 116, 254, 240}

InitTermination ==
  \E buffer \in SeqsUpTo(TerminationBytes, MaxLen) :
    NewDecoder(buffer) /\ cli = NoCli /\ twin = NoTwin /\ probe = NoProbe

NextDecode == DecodeEnter \/ DecodeStep

SpecTermination == InitTermination /\ [][NextDecode]_vars /\ WF_vars(DecodeStep)
---------------------------------------------------------------------------
\* Properties.

\* The segment override as calculateEffectiveAddress prefixes it.
OverrideText == IF segment # "" THEN segment \o ":" ELSE ""

\* The node appended by the last iteration.
LastNode == nodes[Len(nodes)]

\* Positions a short branch of these buffers can name.
TargetRange == (0 - 130)..130

\* C2: decoding the two-byte buffer 01110100 11110000 (JE, displacement -16)
\* returns exactly two lines: a label declaration whose name encodes the
\* target position, then `je <that label>`.
C2_Example3 ==
  (bytes = <<116, 240>> /\ pc = "done" /\ calls = 1) =>
    /\ Len(ret) = 2
    /\ \E t \in TargetRange :
         ret = << createLabelName(t) \o ":\n",
                  "je " \o createLabelName(t) \o "\n" >>

\* The opcode index (1-based) of the branch a node holds, 0 when the node is
\* no short branch: jz or jmp short, bare or behind a LOCK byte.
BranchAt(node) ==
  IF bytes[node.pos] \in {116, 235} THEN node.pos
  ELSE IF bytes[node.pos] = 240 /\ node.pos < Len(bytes)
          /\ bytes[node.pos + 1] \in {116, 235} THEN node.pos + 1
  ELSE 0

\* The absolute target of the branch whose opcode is at index at: the
\* position after its displacement byte plus the signed displacement.
BranchTarget(at) == at + 1 + ToInt8(bytes[at + 1])

\* The line of a branch to the label `name`.
BranchLine(node, name) ==
  (IF bytes[node.pos] = 240 THEN "lock " ELSE "")
    \o (IF bytes[BranchAt(node)] = 116
          THEN "JZ " \o name \o " ; JE\n"
          ELSE "jmp " \o name \o "\n")

\* C3: in the output of a first Decode, two different branches with the same
\* absolute target carry the same name label__<target>, and the label's
\* declaration occurs exactly once, immediately before the first instruction
\* that starts at the target.
C3_LabelIdempotence ==
  (pc = "done" /\ calls = 1) =>
    \A i, j \in 1..Len(nodes) :
      (/\ i < j
       /\ BranchAt(nodes[i]) # 0
       /\ BranchAt(nodes[j]) # 0
       /\ BranchTarget(BranchAt(nodes[i])) = BranchTarget(BranchAt(nodes[j])))
      =>
      LET t == BranchTarget(BranchAt(nodes[i]))
          name == createLabelName(t)
          declaration == name \o ":\n"
      IN  /\ nodes[i].value = BranchLine(nodes[i], name)
          /\ nodes[j].value = BranchLine(nodes[j], name)
          /\ Cardinality({k \in 1..Len(ret) : ret[k] = declaration}) = 1
          /\ \E k \in 1..(Len(ret) - 1), n \in 1..Len(nodes) :
               /\ ret[k] = declaration
               /\ nodes[n].pos - 1 = t
               /\ ret[k + 1] = nodes[n].value
               /\ \A m \in 1..(n - 1) : nodes[m].pos - 1 # t

\* The signed displacement the last resolved operand was read with.
LastDisplacement ==
  IF last.obs.eaMod = MemoryMode8DisplacementFieldEncoding
    THEN ToInt8(bytes[last.obs.eaAt + 1])
    ELSE ToInt16(LittleEndianUint16(bytes[last.obs.eaAt + 1],
                                    bytes[last.obs.eaAt + 2]))

\* C4: every negative MOD = 01 displacement byte and MOD = 10 displacement
\* word d is rendered as [<equation> - |d|], the most negative values
\* included.
C4_NegativeDisplacement ==
  (/\ last.kind = "append"
   /\ last.obs.eaMod \in {MemoryMode8DisplacementFieldEncoding,
                          MemoryMode16DisplacementFieldEncoding}
   /\ LastDisplacement < 0)
  => last.obs.eaText =
       OverrideText \o "[" \o Equation(last.obs.eaRm) \o " - "
         \o ToString(0 - LastDisplacement) \o "]"

\* C5: whenever an instruction resolves an operand with MOD = 00 and
\* R/M = 110, the resolver consumes exactly the two following bytes and the
\* operand is the direct address [N], N their little-endian unsigned value,
\* with no base-register term (behind the active segment override, if any).
C5_DirectAddress ==
  (/\ last.kind = "append"
   /\ last.obs.eaMod = MemoryModeNoDisplacementFieldEncoding
   /\ last.obs.eaRm = DirectAddressRM)
  => /\ last.obs.eaEnd = last.obs.eaAt + 2
     /\ last.obs.eaText =
          OverrideText \o "["
            \o ToString(bytes[last.obs.eaAt + 1] + 256 * bytes[last.obs.eaAt + 2])
            \o "]"
     /\ last.obs.eaText # OverrideText \o "[bp]"
     /\ last.obs.eaText # OverrideText \o "[bp + 0]"

\* A direct address was resolved by both resolvers: as the operand of a push
\* and, behind an es override, as the source of a mov.
C5_Witness ==
  /\ last.kind = "append"
  /\ last.obs.eaMod = MemoryModeNoDisplacementFieldEncoding
  /\ last.obs.eaRm = DirectAddressRM
  /\ \/ (last.fn = "pushRegOrMem" /\ LastNode.value = "push word [4660]\n")
     \/ (last.fn = "moveRegMemToReg" /\ LastNode.value = "mov ax, es:[4660]\n")

\* The builders of the 100000sw arithmetic-immediate group.
ArithmeticImmediateBuilders ==
  {"addImmediateToRegOrMem", "adcImmediateToRegOrMem",
   "subImmediateFromRegOrMem", "sbbImmediateFromRegOrMem",
   "cmpImmediateWithRegOrMem"}

\* The mnemonic selected by the extension field of the 100000sw group.
ArithmeticMnemonic(ext) ==
  CASE ext = 0 -> "add" [] ext = 2 -> "adc" [] ext = 3 -> "sbb"
    [] ext = 5 -> "sub" [] ext = 7 -> "cmp"

\* C6: in the 100000sw group the immediate takes two bytes exactly when W = 1
\* and S = 0 and one byte otherwise; with S = 1 and W = 1 the byte is printed
\* sign-extended (11111110 as -2).
C6_ImmediateWidth ==
  (last.kind = "append" /\ last.fn \in ArithmeticImmediateBuilders) =>
    LET w == Bit(last.op, 0)
        s == Bit(last.op, 1)
        operand == decodeOperand(bytes[last.opAt + 2])
        data == bytes[last.obs.immAt + 1]
    IN  /\ last.obs.immEnd - last.obs.immAt = (IF w = 1 /\ s = 0 THEN 2 ELSE 1)
        /\ pos = last.obs.immEnd
        /\ (s = 1 /\ w = 1) =>
             /\ last.obs.immShown = ToString(ToInt8(data))
             /\ data = 254 => last.obs.immShown = "-2"
             /\ operand.mod = RegisterModeFieldEncoding =>
                  LastNode.value =
                    ArithmeticMnemonic(operand.reg) \o " " \o WordReg(operand.rm)
                      \o ", " \o ToString(ToInt8(data)) \o "\n"

\* add ax, -2 was decoded from 10000011 11000000 11111110, and a two-byte
\* immediate from an opcode with W = 1 and S = 0.
C6_Witness ==
  /\ last.kind = "append"
  /\ last.fn \in ArithmeticImmediateBuilders
  /\ \/ (last.op = 131 /\ LastNode.value = "add ax, -2\n")
     \/ (last.op = 129 /\ last.obs.immEnd = last.obs.immAt + 2
         /\ LastNode.value = "cmp bx, 65534\n")

\* The line of a string instruction, by opcode.
StringLine(op) ==
  CASE op = 164 -> "movsb\n" [] op = 165 -> "movsw\n"
    [] op = 166 -> "cmpsb\n" [] op = 167 -> "cmpsw\n"
    [] op = 170 -> "stosb\n" [] op = 171 -> "stosw\n"
    [] op = 172 -> "lodsb\n" [] op = 173 -> "lodsw\n"
    [] op = 174 -> "scasb\n" [] op = 175 -> "scasw\n"

\* C7: a REP byte 1111001z immediately followed by CMPS or SCAS is emitted as
\* repz (z = 1) or repnz (z = 0); immediately followed by MOVS, LODS or STOS
\* it is emitted as rep for both values of z.
C7_RepNaming ==
  \A k \in 1..Len(nodes) :
    LET pre == bytes[nodes[k].pos]
        op == bytes[nodes[k].pos + 1]
    IN  (pre \in {242, 243} /\ nodes[k].pos < Len(bytes)) =>
          /\ op \in {166, 167, 174, 175} =>
               nodes[k].value =
                 (IF pre = 243 THEN "repz " ELSE "repnz ") \o StringLine(op)
          /\ op \in {164, 165, 170, 171, 172, 173} =>
               nodes[k].value = "rep " \o StringLine(op)

\* 11110010 10101111 11110011 10101010 was decoded to repnz scasw, rep stosb.
C7_Witness ==
  /\ bytes = <<242, 175, 243, 170>>
  /\ pc = "done"
  /\ ret = <<"repnz scasw\n", "rep stosb\n">>

\* C8: when a builder reports a missing byte, Decode returns the error and
\* nil, the iteration appends no node, and a GetDecoded call made afterwards
\* returns the render of the nodes completed before the failure.
C8_MalformedOperandAbort ==
  [][/\ (pc = "loop" /\ pc' = "error") =>
          /\ nodes' = nodes
          /\ err' # ""
          /\ ret' = << >>
     /\ (pc = "error" /\ pc' = "error") =>
          /\ got' = Render(nodes, labels)
          /\ nodes' = nodes]_vars

\* After nop, mov ax with one immediate byte missing failed, and GetDecoded
\* returned the nop alone.
C8_Witness ==
  /\ bytes = <<144, 184, 128>>
  /\ pc = "error"
  /\ calls = 1
  /\ err = "expected to get the immediate value (high) for the 'MOV: immediate to register' instruction"
  /\ nodes = <<[value |-> "xchg ax, ax\n", pos |-> 1]>>
  /\ got = <<"xchg ax, ax\n">>

\* Opcodes whose encoding needs a second (MOD/extension) byte: the groups
\* 100000sw, 1111011w, 1111111w, 110100vw, 10001111, and mov reg, r/m.
SecondByteOpcodes ==
  (128..131) \cup {246, 247, 254, 255} \cup (208..211) \cup {143, 139}

\* C9: when the buffer ends immediately after an opcode that needs a second
\* byte, Decode returns an error (naming the instruction) and does not fault
\* as an unknown opcode.
C9_MissingExtensionByte ==
  (/\ pc \in {"error", "panic"}
   /\ last.op \in SecondByteOpcodes
   /\ last.opAt = Len(bytes) - 1)
  => (pc = "error" /\ err # "")

\* C10: when the post-prefix opcode matches no table entry, Decode faults,
\* the iteration appends no node, and a GetDecoded call made after the fault
\* returns the render of the nodes completed before it.
C10_UnknownOpcode ==
  [][/\ (pc = "loop" /\ last'.kind # "break" /\ last'.entry = 0) =>
          /\ pc' = "panic"
          /\ nodes' = nodes
          /\ err' = "AssertionError: unexpected operation " \o Bin(last'.op)
     /\ (pc = "panic" /\ pc' = "panic") =>
          /\ got' = Render(nodes, labels)
          /\ nodes' = nodes]_vars

\* After nop, the byte 01100011 behind an es override faulted, and GetDecoded
\* returned the nop alone.
C10_Witness ==
  /\ bytes = <<144, 38, 99>>
  /\ pc = "panic"
  /\ calls = 1
  /\ last.entry = 0
  /\ last.op = 99
  /\ err = "AssertionError: unexpected operation 1100011"
  /\ nodes = <<[value |-> "xchg ax, ax\n", pos |-> 1]>>
  /\ got = <<"xchg ax, ax\n">>

\* ---------------------------------------------------------------------
\* C11: CLI outcome.
\* ---------------------------------------------------------------------
\* C11: when Decode returned an error the command-line program has exited
\* with a non-zero status and the message is on standard error; decoded text
\* is on standard output only when decoding succeeded (standard output holds
\* the chunks written: more than the head means decoded text).
C11_CliOutcome ==
  (cli.stage = "exited" /\ cli.input = "file") =>
    /\ pc = "error" =>
          /\ cli.exit # 0
          /\ cli.stderr = <<FileName \o " = " \o err>>
    /\ Len(cli.stdout) > 1 => pc = "done"


\* ---------------------------------------------------------------------
\* C12: render cache coherence.
\* ---------------------------------------------------------------------
\* C12: whatever instructions were appended, labels recorded and GetDecoded
\* calls made so far, a GetDecoded call now returns the text of a full walk
\* over the instruction list and the label map; in particular, when the
\* cache key equals the signature of the current counts, so that the cached
\* text is reused, that text equals the full walk, and the text the last
\* GetDecoded call or Decode return handed out while the key still matches
\* is that walk too.
C12_RenderCacheCoherence ==
  /\ GetDecoded(nodes, labels, cacheKey, decoded).result = Render(nodes, labels)
  /\ cacheKey = computeCacheKey(nodes, labels) => decoded = Render(nodes, labels)
  /\ (pc = "done" /\ cacheKey = computeCacheKey(nodes, labels)) => ret = Render(nodes, labels)

\* A second decoding pass has appended instructions after a render, a label
\* is declared in the text, and the cache is being reused by GetDecoded.
C12_Witness ==
  /\ calls = 2
  /\ pc = "done"
  /\ Cardinality(DOMAIN labels) > 0
  /\ Len(Render(nodes, labels)) > Len(nodes)
  /\ cacheKey = computeCacheKey(nodes, labels)
  /\ got = decoded
  /\ got # << >>

\* ---------------------------------------------------------------------
\* C13: determinism.
\* ---------------------------------------------------------------------
Finished(state) == state \in {"done", "error", "panic"}

LastMatches ==
  {i \in DOMAIN InstructionTable :
     matchPattern(last.opAt + 1, last.op, InstructionTable[i].pattern)}

\* C14: the builder an iteration invoked is the one of the first table
\* entry, in declaration order, whose pattern matches the opcode and its
\* lookahead; none is invoked only when no entry matches; the opcodes
\* 1000011w, which match both the XCHG and the later TEST entry, are
\* dispatched to XCHG.
C14_FirstMatchDispatch ==
  (last.kind \notin {"none", "break"}) =>
    /\ last.entry = 0 <=> LastMatches = {}
    /\ last.entry # 0 =>
         /\ last.entry \in LastMatches
         /\ \A j \in LastMatches : last.entry <= j
         /\ last.fn = InstructionTable[last.entry].fn
    /\ last.op \in {134, 135} =>
         /\ InstructionTable[last.entry].name = "XCHG: Register/memory with register"
         /\ last.fn = "exchangeRegOrMemWithReg"
         /\ Cardinality(LastMatches) = 2

\* The byte 10000111 followed by 11000000 was dispatched: XCHG and TEST both
\* match, and xchg ax, ax was appended.
C14_Witness ==
  /\ bytes = <<135, 192>>
  /\ last.op = 135
  /\ Cardinality(LastMatches) = 2
  /\ last.kind = "append"
  /\ LastNode.value = "xchg ax, ax\n"

\* ---------------------------------------------------------------------
\* C15: matcher correctness.
\* ---------------------------------------------------------------------
\* The byte a template stands against: the candidate for the first template,
\* the i-th byte after the candidate (the cursor is at `at`) for template i.
TemplateByte(candidate, at, i) == IF i = 0 THEN candidate ELSE bytes[at + i]

\* Every symbol 0 or 1 of every template equals the corresponding bit, most
\* significant first, of the corresponding byte.
FixedBitsAgree(candidate, at, pattern) ==
  \A i \in 0..(Len(pattern) - 1) : \A k \in 1..8 :
    /\ pattern[i + 1][k] = "0" => Bit(TemplateByte(candidate, at, i), 8 - k) = 0
    /\ pattern[i + 1][k] = "1" => Bit(TemplateByte(candidate, at, i), 8 - k) = 1

\* C15: for every candidate byte, every lookahead content and every
\* well-formed pattern whose lookahead bytes are in the buffer, matchPattern
\* returns true if and only if every symbol 0 or 1 of every template equals
\* the corresponding bit of the corresponding byte; other symbols impose no
\* constraint.
C15_MatcherCorrectness ==
  (/\ probe.call = "matchPattern"
   /\ Len(bytes) >= probe.at + Len(probe.pattern) - 1) =>
    (probe.ok <=> FixedBitsAgree(probe.candidate, probe.at, probe.pattern))

\* ---------------------------------------------------------------------
\* C20: multi-byte patterns match consecutive bytes.
\* ---------------------------------------------------------------------
\* C20: peekForward(offset) returns, for every offset >= 1, the byte
\* offset - 1 positions past the cursor (the cursor byte itself for offset
\* 1), and reports no value exactly when that position is past the end; so
\* the templates after the first are tested against consecutive bytes.
C20_PeekConsecutive ==
  probe.call = "peekForward" =>
    /\ probe.ok <=> Len(bytes) >= probe.at + probe.offset
    /\ probe.ok => probe.b = bytes[probe.at + probe.offset]

\* ---------------------------------------------------------------------
\* C16: cursor invariant.
\* ---------------------------------------------------------------------
\* C16: the read position always satisfies 0 <= pos <= len(bytes) and
\* never decreases during a decode pass; next() at pos = len(bytes) reports
\* no value and leaves pos unchanged, and before the end returns the byte at
\* pos and moves one byte on; the peek operations never change pos and
\* report no value when the byte they look at is past the end, and the byte
\* they return is one of the buffer.
C16_CursorInvariant ==
  [][/\ 0 <= pos' /\ pos' <= Len(bytes')
     /\ (pc = "loop") => pos' >= pos
     /\ (probe' # probe /\ probe'.call = "next") =>
          /\ probe'.at = pos
          /\ pos = Len(bytes) => (~probe'.ok /\ pos' = pos)
          /\ pos < Len(bytes) =>
               (probe'.ok /\ probe'.b = bytes[pos + 1] /\ pos' = pos + 1)
     /\ (probe' # probe /\ probe'.call \in {"peekNext", "peekForward"}) =>
          /\ pos' = pos
          /\ pos = Len(bytes) => ~probe'.ok
          /\ probe'.ok => \E i \in (pos + 1)..Len(bytes) : probe'.b = bytes[i]
          /\ probe'.call = "peekNext" =>
               (probe'.ok <=> pos < Len(bytes))]_vars

\* After a decode pass that ended at the end of a three-byte buffer, next()
\* was called: it reported no value and the cursor stayed at the end.
C16_Witness ==
  /\ Len(bytes) = 3
  /\ calls = 1
  /\ pc = "done"
  /\ pos = Len(bytes)
  /\ probe.call = "next"
  /\ probe.at = Len(bytes)
  /\ ~probe.ok

\* ---------------------------------------------------------------------
\* C17: direction flag.
\* ---------------------------------------------------------------------
\* The operand byte of the last iteration and its fields.
LastOperandByte == bytes[last.opAt + 2]
LastMod == Shr(LastOperandByte, 6)
LastReg == Shr(LastOperandByte, 3) % 8
LastRm == LastOperandByte % 8
LastIsWord == Bit(last.op, 0) = 1

\* The REG operand and the R/M operand of the last iteration, read from the
\* buffer: a register for MOD = 11, else the effective address with the
\* displacement bytes that follow the operand byte.
LastRegOperand == RegName(LastReg, LastIsWord)

LastRmOperand ==
  CASE LastMod = RegisterModeFieldEncoding -> RegName(LastRm, LastIsWord)
    [] LastMod = MemoryMode8DisplacementFieldEncoding ->
         calculateEffectiveAddress(LastRm, bytes[last.opAt + 3], LastMod, "")
    [] LastMod = MemoryMode16DisplacementFieldEncoding ->
         calculateEffectiveAddress(LastRm,
           LittleEndianUint16(bytes[last.opAt + 3], bytes[last.opAt + 4]), LastMod, "")
    [] OTHER ->
         calculateEffectiveAddress(LastRm,
           IF LastRm = DirectAddressRM
             THEN LittleEndianUint16(bytes[last.opAt + 3], bytes[last.opAt + 4])
             ELSE 0,
           LastMod, "")

\* C17: for every MOD value, a mov register/memory to/from register with
\* D = 1 has the REG operand as destination and the R/M operand as source,
\* and with D = 0 the reverse; the bytes 10001001 11011000 decode to
\* `mov ax, bx`.
C17_DirectionFlag ==
  /\ (last.kind = "append" /\ last.fn = "moveRegMemToReg" /\ last.prefix = ""
      /\ last.opAt = last.start) =>
       LastNode.value =
         IF Bit(last.op, 1) = 1
           THEN "mov " \o LastRegOperand \o ", " \o LastRmOperand \o "\n"
           ELSE "mov " \o LastRmOperand \o ", " \o LastRegOperand \o "\n"
  /\ (last.kind = "append" /\ last.op = 137 /\ LastOperandByte = 216) =>
       LastNode.value = "mov ax, bx\n"

\* 10001001 11011000 was decoded, to `mov ax, bx`.
C17_Witness ==
  /\ last.kind = "append"
  /\ last.op = 137
  /\ last.start = 0
  /\ bytes[2] = 216
  /\ LastNode.value = "mov ax, bx\n"

\* ---------------------------------------------------------------------
\* C18: near jump target.
\* ---------------------------------------------------------------------
\* C18: the target rendered for an unconditional near jump (opcode
\* 11101001) is the cursor position after the two displacement bytes plus
\* the displacement word read as a signed 16-bit value, so a word with the
\* top bit set gives a target before that position.
C18_NearJumpTarget ==
  (last.kind = "append" /\ last.fn = "jumpDirectWithinSegment") =>
    LastNode.value =
      "jmp " \o ToString(last.opAt + 3
                          + ToInt16(LittleEndianUint16(bytes[last.opAt + 2],
                                                       bytes[last.opAt + 3])))
             \o "\n"

\* ---------------------------------------------------------------------
\* C19: short branch target.
\* ---------------------------------------------------------------------
\* The target of the short branch whose opcode is the byte bytes[at]: the
\* position after the displacement byte plus the displacement as a signed
\* 8-bit value.
ShortTarget(at) == at + 1 + ToInt8(bytes[at + 1])

\* The text of a short branch with opcode op to the label of position t.
ShortBranchText(op, t) ==
  IF op = 235
    THEN "jmp label__" \o ToString(t) \o "\n"
    ELSE JumpNames(op) \o " label__" \o ToString(t)
           \o (IF JumpAlternativeNames(op) # ""
                 THEN " ; " \o JumpAlternativeNames(op) ELSE "")
           \o "\n"

\* The line of the returned text that holds the k-th instruction: one line
\* per instruction before it, and one per label declaration up to it.
LineOf(k) ==
  k + Cardinality({j \in 1..k : (nodes[j].pos - 1) \in DOMAIN labels})

\* C19: every conditional jump, loop and short jmp names the label of
\* (cursor position after the displacement byte) + (displacement as signed
\* 8-bit) and records it; and in the text a first Decode returns, whenever
\* that target is the offset of the first byte of a decoded instruction X,
\* the label's declaration is the line immediately before X's line.
C19_ShortBranchTarget ==
  /\ (last.kind = "append" /\ last.op \in ShortBranchOpcodes) =>
       /\ ShortTarget(last.opAt + 1) \in DOMAIN labels
       /\ labels[ShortTarget(last.opAt + 1)]
            = "label__" \o ToString(ShortTarget(last.opAt + 1))
       /\ LastNode.value = ShortBranchText(last.op, ShortTarget(last.opAt + 1))
  /\ (pc = "done" /\ calls = 1) =>
       \A j, k \in 1..Len(nodes) :
         (/\ bytes[nodes[j].pos] \in ShortBranchOpcodes
          /\ nodes[k].pos - 1 = ShortTarget(nodes[j].pos)) =>
           /\ LineOf(k) >= 2
           /\ ret[LineOf(k) - 1]
                = "label__" \o ToString(ShortTarget(nodes[j].pos)) \o ":\n"
           /\ ret[LineOf(k)] = nodes[k].value

\* loop with displacement -3 after a nop: its target is position 0, and the
\* declaration label__0 stands immediately before the nop's line.
C19_Witness ==
  /\ bytes = <<144, 226, 253>>
  /\ pc = "done"
  /\ calls = 1
  /\ ret = <<"label__0:\n", "xchg ax, ax\n", "LOOP label__0\n">>

\* ---------------------------------------------------------------------
\* C21: extension-field mismatch.
\* ---------------------------------------------------------------------
\* The instruction names under which a builder reports a REG/extension
\* field it does not accept.
RegFieldInstructionNames ==
  {"immediate to register/memory", "PUSH: register/memory",
   "POP: register/memory", "INC: register/memory", "DEC: register/memory",
   "ADD: immediate to register/memory", "ADC: immediate to register/memory",
   "SUB: immediate from register/memory", "SBB: immediate from register/memory",
   "CMP: immediate with register/memory", "AND: Immediate with register/memory",
   "TEST: Immediate with register/memory", "OR: Immediate with register/memory",
   "XOR: Immediate with register/memory", "NOT: Invert", "NEG: Change sign",
   "MUL: Unsigned multiplication", "IMUL: Signed multiplication",
   "DIV: Unsigned division", "IDIV: Signed division", "ROL: Rotate left",
   "ROR: Rotate right", "RCL: Rotate through carry flag left",
   "RCR: Rotate through carry flag right",
   "SHL/SAL: Shift logical/arithmetic left", "SHR: Shift logical right",
   "SAR: Shift arithmetic right", "CALL: Indirect within segment",
   "CALL: Indirect intersegment", "JMP: Indirect within segment",
   "JMP: Indirect intersegment"}

RegFieldErrors ==
  {"expected the reg field to be " \o Bin3(r) \o " for the '" \o n
     \o "' instruction" : r \in 0..7, n \in RegFieldInstructionNames}

\* C21: for every input buffer, Decode never ends in an 'expected the reg
\* field to be ...' error: whenever a builder is invoked, the REG/extension
\* field of the operand byte holds the value the builder requires.
C21_RegFieldNeverMismatched ==
  pc = "error" => err \notin RegFieldErrors

\* ---------------------------------------------------------------------
\* C22: displacement bytes consumed per MOD.
\* ---------------------------------------------------------------------
\* The displacement bytes of an operand with the given MOD and R/M.
DisplacementBytes(mod, rm) ==
  CASE mod = RegisterModeFieldEncoding -> 0
    [] mod = MemoryMode8DisplacementFieldEncoding -> 1
    [] mod = MemoryMode16DisplacementFieldEncoding -> 2
    [] OTHER -> IF rm = DirectAddressRM THEN 2 ELSE 0

\* C22: when the bytes after the operand byte suffice, the operand resolver
\* moves the cursor by exactly 0 bytes for MOD = 11, 0 for MOD = 00 with
\* R/M other than 110, 2 for MOD = 00 with R/M = 110, 1 for MOD = 01 and 2
\* for MOD = 10; when they do not, the iteration ends in an error and no
\* instruction is appended with a value put in their place.
C22_DisplacementBytesPerMod ==
  (/\ last.kind \in {"append", "error"}
   /\ last.op \in ResolverOpcodes
   /\ last.opAt = last.start
   /\ Len(bytes) >= last.opAt + 2) =>
    IF Len(bytes) >= last.opAt + 2 + DisplacementBytes(LastMod, LastRm)
      THEN /\ last.kind = "append"
           /\ last.obs.eaMod = LastMod
           /\ last.obs.eaRm = LastRm
           /\ last.obs.eaAt = last.opAt + 2
           /\ last.obs.eaEnd = last.obs.eaAt + DisplacementBytes(LastMod, LastRm)
           /\ pos = last.obs.eaEnd
      ELSE /\ last.kind = "error"
           /\ pc = "error"
           /\ err # ""
           /\ \A n \in 1..Len(nodes) : nodes[n].pos # last.ip

\* mov bx, [4660]: the resolver of MOD = 00 with R/M = 110 consumed
\* the two bytes after the operand byte.
C22_Witness ==
  /\ bytes = <<139, 30, 52, 18>>
  /\ last.kind = "append"
  /\ last.obs.eaAt = 2
  /\ last.obs.eaEnd = 4
  /\ calls = 1

\* ---------------------------------------------------------------------
\* C23: segment override scope.
\* ---------------------------------------------------------------------
\* The bytes 001xx110.
OverrideBytes == {b \in Byte : b % 8 = 6 /\ b \div 32 = 1}

\* A segment-override byte of the last iteration immediately precedes its
\* opcode byte.
OverridePreceded ==
  last.opAt > last.start /\ bytes[last.opAt] \in OverrideBytes

\* C23: when a builder runs (or the dispatch finds none), the decoder's
\* segment override is non-empty if and only if a segment-override byte of
\* this instruction immediately precedes its opcode byte; the rendered
\* address of an instruction carries an override exactly then, so an
\* override seen before one instruction is in no later instruction's
\* address.
C23_SegmentOverrideScope ==
  (last.kind \in {"append", "error", "panic"}) =>
    /\ segment # "" <=> OverridePreceded
    /\ (last.kind = "append" /\ last.obs.eaMod \in 0..2) =>
         last.obs.eaText =
           (IF OverridePreceded THEN segment \o ":" ELSE "") \o LastRmOperand

\* es: mov ax, [bx] was followed by a mov ax, [bx] without override: the
\* second address is rendered without es.
C23_Witness ==
  /\ bytes = <<38, 139, 7, 139, 7>>
  /\ calls = 1
  /\ Len(nodes) = 2
  /\ nodes[1].value = "mov ax, es:[bx]\n"
  /\ nodes[2].value = "mov ax, [bx]\n"
  /\ segment = ""

\* ---------------------------------------------------------------------
\* C27: segment override is never lost.
\* ---------------------------------------------------------------------
\* The address field of a MOV accumulator/direct-address form (1010000w,
\* 1010001w) as decodeAddress reads it after the opcode of the last
\* iteration.
LastDirectAddress ==
  IF LastIsWord
    THEN LittleEndianUint16(bytes[last.opAt + 2], bytes[last.opAt + 3])
    ELSE bytes[last.opAt + 2]

\* The text of that form with no segment name in it.
AccumulatorTextWithoutSegment ==
  IF Bit(last.op, 1) = 0
    THEN "mov " \o accumulator(LastIsWord) \o ", ["
           \o ToString(LastDirectAddress) \o "]\n"
    ELSE "mov [" \o ToString(LastDirectAddress) \o "], "
           \o accumulator(LastIsWord) \o "\n"

\* C27: whenever a segment-override byte is consumed before an instruction
\* with a memory operand, the rendered instruction names that segment: the
\* address of a resolved operand is prefixed with it, and a MOV
\* accumulator/direct-address form (1010000w, 1010001w) is not rendered as
\* the same instruction without override.
C27_SegmentOverrideNeverLost ==
  (last.kind = "append" /\ OverridePreceded) =>
    /\ last.obs.eaMod \in 0..2 =>
         last.obs.eaText = segment \o ":" \o LastRmOperand
    /\ last.op \in 160..163 =>
         LastNode.value # last.prefix \o AccumulatorTextWithoutSegment

\* ---------------------------------------------------------------------
\* C24: the matcher fails closed at the end of the stream.
\* ---------------------------------------------------------------------
\* The two-template table entries whose pattern matches the opcode of the
\* last iteration with the cursor after it.
LastTwoTemplateMatches ==
  {j \in LastMatches : Len(InstructionTable[j].pattern) >= 2}

\* C24: when a pattern has a second template and no byte follows the
\* candidate, matchPattern returns false; so for an opcode that is the last
\* byte of the buffer the dispatcher passes every two-template entry and
\* takes the first one-template entry that matches, or none.
C24_MatcherFailsClosed ==
  (/\ last.kind \in {"append", "error", "panic"}
   /\ last.opAt + 1 = Len(bytes)) =>
    /\ LastTwoTemplateMatches = {}
    /\ last.entry # 0 => Len(InstructionTable[last.entry].pattern) = 1
    /\ \A j \in DOMAIN InstructionTable :
         (/\ Len(InstructionTable[j].pattern) = 1
          /\ templateMatches(last.op, InstructionTable[j].pattern[1]))
         => (last.entry # 0 /\ last.entry <= j)

\* The opcode 10000001, whose table entries all have a second template, was
\* the last byte of the buffer: no entry matched and the dispatcher reached
\* the default case.
C24_Witness ==
  /\ bytes = <<129>>
  /\ pc = "panic"
  /\ last.op = 129
  /\ last.opAt = 0
  /\ last.entry = 0
  /\ \E j \in DOMAIN InstructionTable :
       /\ Len(InstructionTable[j].pattern) = 2
       /\ templateMatches(129, InstructionTable[j].pattern[1])

\* ---------------------------------------------------------------------
\* C25: matching leaves state untouched.
\* ---------------------------------------------------------------------
\* C25: the calls of matchPattern an iteration makes, whether they return
\* true or false, leave the cursor, the segment override, the label map and
\* the instruction list as they were.  With no prefix and no override the
\* opcode is the first byte of the iteration: when every entry was tested
\* and none matched, the cursor stands right after the opcode and labels and
\* instructions are unchanged; when an entry matched, its builder reads the
\* operand byte right after the opcode (the byte a second template looked
\* at), the instructions already decoded are kept, and labels change only in
\* a branch builder.
C25_MatchingLeavesStateUntouched ==
  [][(/\ pc = "loop"
      /\ last'.kind \in {"append", "error", "panic"}
      /\ last'.prefix = ""
      /\ last'.start = pos
      /\ bytes[pos + 1] \notin OverrideBytes) =>
       /\ segment' = ""
       /\ last'.opAt = pos
       /\ last'.op = bytes[pos + 1]
       /\ last'.entry = 0 =>
            /\ pos' = pos + 1
            /\ labels' = labels
            /\ nodes' = nodes
       /\ last'.obs.eaMod # -1 => last'.obs.eaAt = pos + 2
       /\ last'.op \notin ShortBranchOpcodes => labels' = labels
       /\ Len(nodes') >= Len(nodes)
       /\ \A n \in 1..Len(nodes) : nodes'[n] = nodes[n]]_vars

\* inc ax (11111111 11000000) was decoded: the second template of its entry
\* looked at the operand byte, and the builder read that byte after it.
C25_Witness ==
  /\ bytes = <<255, 192>>
  /\ last.kind = "append"
  /\ Len(InstructionTable[last.entry].pattern) = 2
  /\ last.obs.eaAt = 2
  /\ LastNode.value = "inc ax\n"
  /\ calls = 1

\* ---------------------------------------------------------------------
\* C26: label closure.
\* ---------------------------------------------------------------------
\* C26: in the text a first successful Decode returns, every label named as
\* the operand of a conditional jump, loop or short jmp also stands as a
\* declaration line `<name>:` in that text, wherever the target lies.
C26_LabelClosure ==
  (pc = "done" /\ calls = 1) =>
    \A j \in 1..Len(nodes) :
      bytes[nodes[j].pos] \in ShortBranchOpcodes =>
        \E k \in 1..Len(ret) :
          ret[k] = "label__" \o ToString(ShortTarget(nodes[j].pos)) \o ":\n"

\* ---------------------------------------------------------------------
\* C28: trailing prefix.
\* ---------------------------------------------------------------------
\* The LOCK byte and the two REP bytes.
LockOrRepBytes == {b \in Byte : b = 240 \/ b \div 2 = 121}

\* The bytes from the position p on are a LOCK or REP prefix, a segment
\* override, or a prefix followed by a segment override, and nothing else.
TrailingPrefixAt(p) ==
  \/ /\ Len(bytes) = p + 1
     /\ bytes[p + 1] \in LockOrRepBytes \cup OverrideBytes
  \/ /\ Len(bytes) = p + 2
     /\ bytes[p + 1] \in LockOrRepBytes
     /\ bytes[p + 2] \in OverrideBytes

\* C28: an iteration that finds the buffer ending right after a LOCK or REP
\* prefix byte or right after a segment-override byte leaves the loop: Decode
\* returns with a nil error, no instruction is appended for the trailing
\* bytes, and the text returned is the render of the instructions decoded
\* before them.
C28_TrailingPrefix ==
  [][(pc = "loop" /\ TrailingPrefixAt(pos)) =>
       /\ pc' = "done"
       /\ err' = ""
       /\ nodes' = nodes
       /\ labels' = labels
       /\ ret' = Render(nodes, labels)
       /\ last'.kind = "break"]_vars

\* nop followed by a lone LOCK byte: Decode returns the nop alone.
C28_Witness ==
  /\ bytes = <<144, 240>>
  /\ pc = "done"
  /\ calls = 1
  /\ err = ""
  /\ last.kind = "break"
  /\ last.start = 1
  /\ last.prefix = "lock "
  /\ ret = <<"xchg ax, ax\n">>


\* ---------------------------------------------------------------------
\* C29: Decode is not idempotent on one instance.
\* ---------------------------------------------------------------------
\* C29: a second Decode on the same Decoder keeps the instruction list, the
\* label map and the cache of the first and resets only the cursor: when the
\* first call returned the text T (still held in ret while the second runs),
\* the second call returns T followed by T, the instruction list holds every
\* instruction of the first pass twice, and T is the render of one pass.
C29_SecondDecodeDoubles ==
  [][(pc = "loop" /\ calls = 2 /\ pc' = "done") =>
       /\ ret' = ret \o ret
       /\ Len(nodes') = 2 * (Len(nodes') \div 2)
       /\ nodes' = SubSeq(nodes', 1, Len(nodes') \div 2)
                     \o SubSeq(nodes', 1, Len(nodes') \div 2)
       /\ ret = Render(SubSeq(nodes', 1, Len(nodes') \div 2), labels')
       /\ labels' = labels]_vars

\* nop ; loop -3 decoded twice: the declaration of label__0 and both
\* instructions appear twice.
C29_Witness ==
  /\ bytes = <<144, 226, 253>>
  /\ pc = "done"
  /\ calls = 2
  /\ ret = <<"label__0:\n", "xchg ax, ax\n", "LOOP label__0\n",
             "label__0:\n", "xchg ax, ax\n", "LOOP label__0\n">>

\* ---------------------------------------------------------------------
\* C30: termination.
\* ---------------------------------------------------------------------
\* C30: Decode terminates on every finite buffer.  A call that is inside
\* the loop eventually leaves it; every iteration either moves the cursor
\* forward by at least one byte or leaves the loop; no step of a call moves
\* the cursor backwards or past the end of the buffer; and a call never
\* appends more instructions than the buffer has bytes (at most one per byte
\* consumed, on top of the instructions earlier calls left).
C30_Termination ==
  /\ (pc = "loop") ~> (pc # "loop")
  /\ [][pc = "loop" =>
          /\ (pos' > pos \/ pc' # "loop")
          /\ pos' >= pos
          /\ pos' <= Len(bytes)
          /\ Len(nodes') - Len(nodes) \in {0, 1}
          /\ Len(nodes') > Len(nodes) => pos' > pos]_vars
  /\ [](pc = "loop" => Len(nodes) <= (calls - 1) * Len(bytes) + pos)
  /\ [](Len(nodes) <= calls * Len(bytes))

\* jz -2 (a branch to itself) followed by a nop: the decoder does not
\* follow the branch, and the call returned after two instructions.
C30_Witness ==
  /\ bytes = <<116, 254, 144>>
  /\ pc = "done"
  /\ calls = 1
  /\ pos = 3
  /\ Len(nodes) = 2

=============================================================================
